---- MODULE Spec2Model ----
(***************************************************************************)
(* The Inventory Ledger of essentia_commerce_plugin: the InventoryService  *)
(* of src/implementation/inventory_sync/service.rs over the types of       *)
(* src/types/inventory_sync.rs.  Five collections, each behind its own     *)
(* Mutex; every critical section of the code is one atomic step here.      *)
(***************************************************************************)
EXTENDS Integers, Sequences, FiniteSets, TLC

\* ------------------------------------------------------------------ bounds
\* i64 is modelled at IntBits bits (two's complement), so that the saturating
\* and the plain (wrapping or panicking) arithmetic of the code both show; the
\* range holds quantities on both sides of the stock thresholds.
IntBits == 6
\* Largest u32 quantity a caller passes to a stock operation.
MaxQty == 2
\* Most adjustments the log holds: under concurrent callers, and in the runs
\* that record every call and its result.
MaxLog == 3
MaxLogObserved == 5
\* The clock (seconds since the epoch) runs from 0 to MaxTime.
MaxTime == 1
\* Most items a stored transfer holds.
MaxItems == 2
\* Invocations one thread begins in a run of finitely many operations.
MaxCalls == 2
\* Adjustments the log may hold in runs that follow the locks.
MaxLogLocking == 4

I64_MAX == 2 ^ (IntBits - 1) - 1
I64_MIN == -(2 ^ (IntBits - 1))
I64 == I64_MIN .. I64_MAX

Threads == {"t1", "t2"}
Products == {"p1", "p2"}
DefaultWarehouse == "warehouse-main"
LocationIds == {DefaultWarehouse, "store-1"}
Keys == Products \X LocationIds

\* ------------------------------------------------------- integer arithmetic
Max(a, b) == IF a >= b THEN a ELSE b
Min(a, b) == IF a <= b THEN a ELSE b
Fits(x) == x >= I64_MIN /\ x <= I64_MAX
\* i64::saturating_add / saturating_sub: clamp to the i64 range.
Clamp(x) == Max(I64_MIN, Min(I64_MAX, x))
SatAdd(a, b) == Clamp(a + b)
SatSub(a, b) == Clamp(a - b)
\* The plain + and - of i64 in a build without overflow checks.
Wrap(x) == ((x - I64_MIN) % (2 ^ IntBits)) + I64_MIN

\* ------------------------------------------------------------------ records
NoLevel == [none |-> TRUE]
NoRef == <<>>
NoAdj == [none |-> TRUE]

\* InventoryLevel::new: all quantities zero.
InventoryLevel_new(p, l) ==
  [product_id |-> p, location_id |-> l,
   available |-> 0, committed |-> 0, on_hand |-> 0, damaged |-> 0]

\* A level written back without recomputing available (what an operation
\* that skipped recalculate_available would store).
recalculate_available_skipped(level) == level

recalculate_available(level) ==
  [level EXCEPT !.available = SatSub(SatSub(level.on_hand, level.committed), level.damaged)]

\* InventoryAdjustment::new, then with_reference when ref is not NoRef.
\* new_quantity is the plain sum previous_quantity + quantity.
InventoryAdjustment_new(p, l, type, quantity, previous, reason, ref, time) ==
  [product_id |-> p, location_id |-> l, adjustment_type |-> type,
   quantity |-> quantity, previous_quantity |-> previous,
   new_quantity |-> Wrap(previous + quantity),
   reference |-> ref, reason |-> reason, created_at |-> time]

\* ------------------------------------------- the level-store critical sections
\* Each operator is the code between levels.lock() and drop(levels) of one
\* operation, on level store lv: the outcome, the store it leaves, the
\* adjustment it built, and whether a plain + or - overflowed on the way.
Failed(lv, e) == [kind |-> "err", err |-> e, levels |-> lv, adj |-> NoAdj, ovf |-> FALSE]
Done(lv, a, o) == [kind |-> "ok", err |-> "none", levels |-> lv, adj |-> a, ovf |-> o]

InventoryNotFound(p) == [error |-> "InventoryNotFound", product_id |-> p]
InsufficientInventory(p, a, r) ==
  [error |-> "InsufficientInventory", product_id |-> p, available |-> a, requested |-> r]
LockError == [error |-> "LockError"]

set_inventory_cs(lv, p, l, on_hand, reason, time) ==
  LET key == <<p, l>>
      previous_quantity == IF lv[key] = NoLevel THEN 0 ELSE lv[key].on_hand
      entry == IF lv[key] = NoLevel THEN InventoryLevel_new(p, l) ELSE lv[key]
      level == recalculate_available([entry EXCEPT !.on_hand = on_hand])
      delta == on_hand - previous_quantity
  IN  Done([lv EXCEPT ![key] = level],
           InventoryAdjustment_new(p, l, "Adjustment", Wrap(delta), previous_quantity,
                                   <<reason>>, NoRef, time),
           ~Fits(delta) \/ ~Fits(previous_quantity + Wrap(delta)))

\* A reservation that is granted without looking at the available quantity.
reserve_stock_unchecked(lv, p, l, quantity, ref, time) ==
  LET key == <<p, l>>
      level == lv[key]
  IN  IF level = NoLevel THEN Failed(lv, InventoryNotFound(p))
      ELSE Done([lv EXCEPT ![key] = recalculate_available(
                   [level EXCEPT !.committed = SatAdd(level.committed, quantity)])],
                InventoryAdjustment_new(p, l, "Reserved", quantity, level.committed,
                                        <<"Stock reserved for order">>, ref, time),
                ~Fits(level.committed + quantity))

\* A reservation whose refusal reports the available quantity as stored,
\* negative or not.
reserve_stock_signed(lv, p, l, quantity, ref, time) ==
  LET key == <<p, l>>
      level == lv[key]
  IN  IF level = NoLevel THEN Failed(lv, InventoryNotFound(p))
      ELSE IF level.available < quantity
      THEN Failed(lv, InsufficientInventory(p, level.available, quantity))
      ELSE Done([lv EXCEPT ![key] = recalculate_available(
                   [level EXCEPT !.committed = SatAdd(level.committed, quantity)])],
                InventoryAdjustment_new(p, l, "Reserved", quantity, level.committed,
                                        <<"Stock reserved for order">>, ref, time),
                ~Fits(level.committed + quantity))

reserve_stock_cs(lv, p, l, quantity, ref, time) ==
  LET key == <<p, l>>
      level == lv[key]
  IN  IF level = NoLevel THEN Failed(lv, InventoryNotFound(p))
      ELSE IF level.available < quantity
      THEN Failed(lv, InsufficientInventory(p, Max(level.available, 0), quantity))
      ELSE LET previous == level.committed
               updated == recalculate_available(
                            [level EXCEPT !.committed = SatAdd(level.committed, quantity)])
           IN  Done([lv EXCEPT ![key] = updated],
                    InventoryAdjustment_new(p, l, "Reserved", quantity, previous,
                                            <<"Stock reserved for order">>, ref, time),
                    ~Fits(previous + quantity))

\* A release that gives back the committed quantity and stores the record
\* with the available quantity the reservation left.
release_stock_stale(lv, p, l, quantity, ref, time) ==
  LET key == <<p, l>>
      level == lv[key]
  IN  IF level = NoLevel THEN Failed(lv, InventoryNotFound(p))
      ELSE Done([lv EXCEPT ![key] =
                   [level EXCEPT !.committed = SatSub(level.committed, quantity)]],
                InventoryAdjustment_new(p, l, "Unreserved", -quantity, level.committed,
                                        <<"Stock released">>, ref, time),
                ~Fits(level.committed - quantity))

release_stock_cs(lv, p, l, quantity, ref, time) ==
  LET key == <<p, l>>
      level == lv[key]
  IN  IF level = NoLevel THEN Failed(lv, InventoryNotFound(p))
      ELSE LET previous == level.committed
               updated == recalculate_available(
                            [level EXCEPT !.committed = SatSub(level.committed, quantity)])
           IN  Done([lv EXCEPT ![key] = updated],
                    InventoryAdjustment_new(p, l, "Unreserved", -quantity, previous,
                                            <<"Stock released">>, ref, time),
                    ~Fits(previous - quantity))

\* A commit_stock that ships the units and keeps them reserved.
commit_stock_keeping_reservation(lv, p, l, quantity, ref, time) ==
  LET key == <<p, l>>
      level == lv[key]
  IN  IF level = NoLevel THEN Failed(lv, InventoryNotFound(p))
      ELSE LET previous == level.on_hand
               updated == recalculate_available(
                            [level EXCEPT !.on_hand = SatSub(level.on_hand, quantity)])
           IN  Done([lv EXCEPT ![key] = updated],
                    InventoryAdjustment_new(p, l, "Shipped", -quantity, previous,
                                            <<"Stock shipped">>, ref, time),
                    ~Fits(previous - quantity))

\* A commit_stock that ships the quantity from every record of the location.
commit_stock_every_product(lv, p, l, quantity, ref, time) ==
  LET key == <<p, l>>
      level == lv[key]
  IN  IF level = NoLevel THEN Failed(lv, InventoryNotFound(p))
      ELSE Done([k \in Keys |->
                   IF lv[k] # NoLevel /\ k[2] = l
                   THEN recalculate_available(
                          [lv[k] EXCEPT !.on_hand = SatSub(lv[k].on_hand, quantity),
                                        !.committed = SatSub(lv[k].committed, quantity)])
                   ELSE lv[k]],
                InventoryAdjustment_new(p, l, "Shipped", -quantity, level.on_hand,
                                        <<"Stock shipped">>, ref, time),
                ~Fits(level.on_hand - quantity))

\* A commit_stock that creates the record it does not find.
commit_stock_creating(lv, p, l, quantity, ref, time) ==
  LET key == <<p, l>>
      level == IF lv[key] = NoLevel THEN InventoryLevel_new(p, l) ELSE lv[key]
      previous == level.on_hand
      updated == recalculate_available(
                   [level EXCEPT !.on_hand = SatSub(level.on_hand, quantity),
                                 !.committed = SatSub(level.committed, quantity)])
  IN  Done([lv EXCEPT ![key] = updated],
           InventoryAdjustment_new(p, l, "Shipped", -quantity, previous,
                                   <<"Stock shipped">>, ref, time),
           ~Fits(previous - quantity))

commit_stock_cs(lv, p, l, quantity, ref, time) ==
  LET key == <<p, l>>
      level == lv[key]
  IN  IF level = NoLevel THEN Failed(lv, InventoryNotFound(p))
      ELSE LET previous == level.on_hand
               updated == recalculate_available(
                            [level EXCEPT !.on_hand = SatSub(level.on_hand, quantity),
                                          !.committed = SatSub(level.committed, quantity)])
           IN  Done([lv EXCEPT ![key] = updated],
                    InventoryAdjustment_new(p, l, "Shipped", -quantity, previous,
                                            <<"Stock shipped">>, ref, time),
                    ~Fits(previous - quantity))

\* A receive_stock whose addition wraps around instead of saturating.
receive_stock_wrapping(lv, p, l, quantity, ref, time) ==
  LET key == <<p, l>>
      entry == IF lv[key] = NoLevel THEN InventoryLevel_new(p, l) ELSE lv[key]
      previous == entry.on_hand
      updated == recalculate_available(
                   [entry EXCEPT !.on_hand = Wrap(entry.on_hand + quantity)])
  IN  Done([lv EXCEPT ![key] = updated],
           InventoryAdjustment_new(p, l, "Received", quantity, previous,
                                   <<"Stock received">>, ref, time),
           ~Fits(previous + quantity))

receive_stock_cs(lv, p, l, quantity, ref, time) ==
  LET key == <<p, l>>
      entry == IF lv[key] = NoLevel THEN InventoryLevel_new(p, l) ELSE lv[key]
      previous == entry.on_hand
      updated == recalculate_available(
                   [entry EXCEPT !.on_hand = SatAdd(entry.on_hand, quantity)])
  IN  Done([lv EXCEPT ![key] = updated],
           InventoryAdjustment_new(p, l, "Received", quantity, previous,
                                   <<"Stock received">>, ref, time),
           ~Fits(previous + quantity))

\* A reconciler whose Increment and Decrement wrap around instead of saturating.
apply_single_change_wrapping(lv, chg, source_id, time) ==
  LET p == chg.product_id
      l == chg.location_id
      key == <<p, l>>
      entry == IF lv[key] = NoLevel THEN InventoryLevel_new(p, l) ELSE lv[key]
      on_hand == CASE chg.change_type = "Set" -> chg.quantity
                   [] chg.change_type = "Increment" -> Wrap(entry.on_hand + chg.quantity)
                   [] chg.change_type = "Decrement" -> Wrap(entry.on_hand - chg.quantity)
      level == recalculate_available([entry EXCEPT !.on_hand = on_hand])
      previous == on_hand - chg.quantity
  IN  Done([lv EXCEPT ![key] = level],
           InventoryAdjustment_new(p, l, "Adjustment", chg.quantity, Wrap(previous),
                                   <<"Sync from", source_id>>, NoRef, time),
           ~Fits(previous) \/ ~Fits(Wrap(previous) + chg.quantity))

\* apply_single_change: chg is an InventoryChange [product_id, location_id,
\* quantity, change_type]; the external ids are used as the ledger's own.
apply_single_change_cs(lv, chg, source_id, time) ==
  LET p == chg.product_id
      l == chg.location_id
      key == <<p, l>>
      entry == IF lv[key] = NoLevel THEN InventoryLevel_new(p, l) ELSE lv[key]
      on_hand == CASE chg.change_type = "Set" -> chg.quantity
                   [] chg.change_type = "Increment" -> SatAdd(entry.on_hand, chg.quantity)
                   [] chg.change_type = "Decrement" -> SatSub(entry.on_hand, chg.quantity)
      level == recalculate_available([entry EXCEPT !.on_hand = on_hand])
      previous == on_hand - chg.quantity
  IN  Done([lv EXCEPT ![key] = level],
           InventoryAdjustment_new(p, l, "Adjustment", chg.quantity, Wrap(previous),
                                   <<"Sync from", source_id>>, NoRef, time),
           ~Fits(previous) \/ ~Fits(Wrap(previous) + chg.quantity))

\* -------------------------------------------------------------------- state
VARIABLES
  levels,          \* InventoryService.levels: Keys -> InventoryLevel or NoLevel
  locations,       \* InventoryService.locations: LocationIds -> InventoryLocation or NoLocation
  adjustments,     \* InventoryService.adjustments: the Vec of InventoryAdjustment
  transfers,       \* InventoryService.transfers: TransferIds -> StockTransfer or NoTransfer
  sources,         \* InventoryService.sources: the registered source ids
  poisoned,        \* the levels Mutex is poisoned (a thread panicked holding its guard)
  overflow_checks, \* the build's overflow-checks setting: "unset" until it first matters
  now,             \* SystemTime::now() in seconds
  pc,              \* where each caller thread is
  frame,           \* the locals of the call each thread is in
  handle,          \* the StockTransfer value create_transfer returned to each thread
  run,         \* how the run is explored: see Concurrent and Observed
  ev,              \* the call the last step belonged to and what it returned
  snap,            \* the stores as they were when complete_transfer or apply_sync_changes was last called
  nOk,             \* stock-operation invocations that returned Ok so far
  nWrites,         \* level-store updates made so far
  sched            \* the five Mutexes and the threads: who holds each lock, which critical
                   \* section each thread is in, how many calls each thread has begun

vars == <<levels, locations, adjustments, transfers, sources, poisoned, overflow_checks,
          now, pc, frame, handle, run, ev, snap, nOk, nWrites, sched>>

NoLocation == [none |-> TRUE]
NoTransfer == [none |-> TRUE]
NoFrame == [op |-> "none"]
NoEv == [op |-> "none"]
Ok == [ok |-> TRUE]

TransferId(time) == <<"transfer", time>>
TransferIds == {TransferId(n) : n \in 0 .. MaxTime}

\* InventoryLocation::warehouse and InventoryLocation::store.
InventoryLocation_warehouse(id, name) ==
  [id |-> id, name |-> name, location_type |-> "Warehouse", is_active |-> TRUE,
   fulfillment_priority |-> 1, can_ship |-> TRUE, allows_pickup |-> FALSE]
InventoryLocation_store(id, name) ==
  [id |-> id, name |-> name, location_type |-> "Store", is_active |-> TRUE,
   fulfillment_priority |-> 10, can_ship |-> TRUE, allows_pickup |-> TRUE]

\* StockTransfer::new and StockTransfer::add_item.
StockTransfer_new(from, to, time) ==
  [id |-> TransferId(time), from_location |-> from, to_location |-> to,
   status |-> "Pending", items |-> <<>>, arrived_at |-> "none",
   created_at |-> time, updated_at |-> time]
add_item(transfer, p, quantity, time) ==
  [transfer EXCEPT !.items = Append(@, [product_id |-> p, quantity |-> quantity,
                                        quantity_received |-> 0]),
                   !.updated_at = time]

\* The Mutex fields of InventoryService.  Every method takes a lock with
\* lock(), works on the guarded collection and lets the guard go (drop, or the
\* end of the block or of the function) before it takes another.
Locks == {"locations", "levels", "adjustments", "transfers", "sources"}
Free == "free"
Outside == "outside"
Unlocked ==
  [owner |-> [l \in Locks |-> Free], inside |-> [t \in Threads |-> Outside],
   calls |-> [t \in Threads |-> 0]]

\* InventoryService::new: empty collections, then the default warehouse is added.
NoSnapshot == [none |-> TRUE]
Snapshot == [levels |-> levels, adjustments |-> adjustments, transfers |-> transfers]

Constructed ==
  /\ levels = [k \in Keys |-> NoLevel]
  /\ locations = [l \in LocationIds |->
                    IF l = DefaultWarehouse
                    THEN InventoryLocation_warehouse(l, "Main Warehouse") ELSE NoLocation]
  /\ adjustments = <<>>
  /\ transfers = [i \in TransferIds |-> NoTransfer]
  /\ sources = {}
  /\ poisoned = FALSE
  /\ overflow_checks = "unset"
  /\ now = 0
  /\ pc = [t \in Threads |-> "idle"]
  /\ frame = [t \in Threads |-> NoFrame]
  /\ handle = [t \in Threads |-> NoTransfer]
  /\ ev = NoEv
  /\ snap = NoSnapshot
  /\ nOk = 0
  /\ nWrites = 0
  /\ sched = Unlocked

\* How a run is explored: whether the calls, their results and the state at
\* the start of complete_transfer are recorded, and how long the log may grow.
Concurrent == [observe |-> FALSE, log_cap |-> MaxLog, locking |-> FALSE]
Observed == [observe |-> TRUE, log_cap |-> MaxLogObserved, locking |-> FALSE]
Locking == [observe |-> FALSE, log_cap |-> MaxLogLocking, locking |-> TRUE]
Recorded == [observe |-> TRUE, log_cap |-> MaxLog, locking |-> FALSE]

Init == Constructed /\ run = Concurrent
InitObserved == Constructed /\ run = Observed
InitRecorded == Constructed /\ run = Recorded

\* ------------------------------------------------------------ the log budget
\* Adjustments the call thread t is in may still push.
Need(t) ==
  CASE pc[t] = "record" /\ frame[t].op = "complete_transfer" ->
         2 * Len(frame[t].items) - (IF frame[t].phase = "receive" THEN 1 ELSE 0)
    [] pc[t] = "record" /\ frame[t].op = "apply_sync_changes" -> Len(frame[t].changes)
    [] pc[t] = "record" -> 1
    [] pc[t] = "commit" -> 2 * Len(frame[t].items)
    [] pc[t] = "receive" -> 2 * Len(frame[t].items) - 1
    [] pc[t] = "sync" -> Len(frame[t].changes)
    [] OTHER -> 0
RECURSIVE NeedOf(_)
NeedOf(S) == IF S = {} THEN 0 ELSE LET t == CHOOSE x \in S : TRUE IN Need(t) + NeedOf(S \ {t})
Room(n) == Len(adjustments) + NeedOf(Threads) + n <= run.log_cap

\* ---------------------------------------------------------------- the locks
\* Thread t takes lock l with Mutex::lock: it waits until the lock is free.
\* The step that takes the lock does the work of the critical section; the
\* guard is let go in a step of its own (Unlock).  A thread that is idle
\* begins a new call.  Runs that do not follow the locks take every critical
\* section as one step.
Begins(t) == IF pc[t] = "idle" THEN 1 ELSE 0
Lock(t, l) ==
  IF run.locking
  THEN /\ sched.inside[t] = Outside
       /\ sched.owner[l] = Free
       /\ sched.calls[t] + Begins(t) <= MaxCalls
       /\ sched' = [owner |-> [sched.owner EXCEPT ![l] = t],
                    inside |-> [sched.inside EXCEPT ![t] = l],
                    calls |-> [sched.calls EXCEPT ![t] = @ + Begins(t)]]
  ELSE sched' = sched

\* A step of thread t that takes no lock.
NoLock(t) ==
  IF run.locking
  THEN /\ sched.inside[t] = Outside
       /\ sched.calls[t] + Begins(t) <= MaxCalls
       /\ sched' = [sched EXCEPT !.calls[t] = @ + Begins(t)]
  ELSE sched' = sched

\* A guard that stays locked when it goes out of scope on the adjustment log.
release_keeping_log(owner, t, l) ==
  IF l = "adjustments" THEN owner ELSE [owner EXCEPT ![l] = Free]

\* A guard that never unlocks.
release_forgotten(owner, t, l) == owner

\* The guard of lock l held by thread t goes out of scope.
release(owner, t, l) == [owner EXCEPT ![l] = Free]

\* ------------------------------------------------- what a call does next
Pending == [pending |-> TRUE]
Panicked == [panicked |-> TRUE]
Next3(p, f, r) == [pc |-> p, frame |-> f, ret |-> r]
Event(op, call, ret) == IF run.observe THEN [op |-> op, call |-> call, ret |-> ret] ELSE NoEv

\* A result whose status does not tell Partial from Failed.
SyncResult_all_or_nothing(f) ==
  [source_id |-> f.call.source_id,
   status |-> IF f.failed = 0 THEN "Success" ELSE "Failed",
   items_processed |-> f.processed, items_updated |-> f.updated,
   items_failed |-> f.failed, errors |-> f.errors]

\* The SyncResult apply_sync_changes returns from its counters.
SyncResult(f) ==
  [source_id |-> f.call.source_id,
   status |-> IF f.failed = 0 THEN "Success"
              ELSE IF f.updated > 0 THEN "Partial" ELSE "Failed",
   items_processed |-> f.processed, items_updated |-> f.updated,
   items_failed |-> f.failed, errors |-> f.errors]

\* The loop of apply_sync_changes moves to the next change, or returns.
SyncAdvance(f) ==
  LET g == [f EXCEPT !.changes = Tail(@), !.adj = NoAdj]
  IN  IF g.changes = <<>> THEN Next3("idle", NoFrame, SyncResult(g))
      ELSE Next3("sync", g, Pending)

\* A stock operation called from frame f returned Err(e): the caller returns
\* the error, except apply_sync_changes, which counts it and goes on.
OnError(f, e) ==
  IF f.op = "apply_sync_changes"
  THEN SyncAdvance([f EXCEPT !.processed = @ + 1, !.failed = @ + 1,
                             !.errors = Append(@, <<Head(f.changes).product_id, e>>)])
  ELSE Next3("idle", NoFrame, e)

\* A stock operation called from frame f returned Ok(()).
OnRecorded(f) ==
  CASE f.op = "apply_sync_changes" ->
         SyncAdvance([f EXCEPT !.processed = @ + 1, !.updated = @ + 1])
    [] f.op = "complete_transfer" /\ f.phase = "commit" ->
         Next3("receive", [f EXCEPT !.adj = NoAdj], Pending)
    [] f.op = "complete_transfer" /\ f.phase = "receive" ->
         Next3(IF Tail(f.items) = <<>> THEN "finish" ELSE "commit",
               [f EXCEPT !.items = Tail(@), !.adj = NoAdj], Pending)
    [] OTHER -> Next3("idle", NoFrame, Ok)

Resume(t, n, f) ==
  /\ pc' = [pc EXCEPT ![t] = n.pc]
  /\ frame' = [frame EXCEPT ![t] = n.frame]
  /\ ev' = Event(f.op, f.call, n.ret)

\* The build settings under which an overflowing + or - can run.
Profiles(ovf) ==
  IF ovf /\ overflow_checks = "unset" THEN {"on", "off"} ELSE {overflow_checks}

\* Thread t, in frame f, runs a level-store critical section whose result on
\* the current store is r.  levels.lock() fails when the Mutex is poisoned; an
\* overflow panics under overflow checks, with the guard held and the level
\* already written, and wraps without them.
LevelStep(t, f, r) ==
  /\ Lock(t, "levels")
  /\ IF poisoned
     THEN /\ Resume(t, OnError(f, LockError), f)
          /\ UNCHANGED <<levels, poisoned, overflow_checks, nWrites>>
     ELSE IF r.kind = "err"
     THEN /\ Resume(t, OnError(f, r.err), f)
          /\ UNCHANGED <<levels, poisoned, overflow_checks, nWrites>>
     ELSE \E oc \in Profiles(r.ovf) :
            /\ overflow_checks' = oc
            /\ levels' = r.levels
            /\ nWrites' = nWrites + 1
            /\ IF r.ovf /\ oc = "on"
               THEN /\ poisoned' = TRUE
                    /\ Resume(t, Next3("panicked", NoFrame, Panicked), f)
               ELSE /\ poisoned' = poisoned
                    /\ Resume(t, Next3("record", [f EXCEPT !.adj = r.adj], Pending), f)

Direct(op, p, l, x) ==
  [op |-> op, call |-> [product_id |-> p, location_id |-> l, arg |-> x], adj |-> NoAdj]
OrderRef == <<"ORD-001">>

\* --------------------------------------------------------- stock operations
SetInventory(t, p, l, on_hand) ==
  /\ pc[t] = "idle" /\ Room(1)
  /\ LevelStep(t, Direct("set_inventory", p, l, on_hand),
               set_inventory_cs(levels, p, l, on_hand, "count", now))
  /\ UNCHANGED <<locations, adjustments, transfers, sources, now, handle, run, snap, nOk>>

ReserveStock(t, p, l, quantity) ==
  /\ pc[t] = "idle" /\ Room(1)
  /\ LevelStep(t, Direct("reserve_stock", p, l, quantity),
               reserve_stock_cs(levels, p, l, quantity, OrderRef, now))
  /\ UNCHANGED <<locations, adjustments, transfers, sources, now, handle, run, snap, nOk>>

ReleaseStock(t, p, l, quantity) ==
  /\ pc[t] = "idle" /\ Room(1)
  /\ LevelStep(t, Direct("release_stock", p, l, quantity),
               release_stock_cs(levels, p, l, quantity, OrderRef, now))
  /\ UNCHANGED <<locations, adjustments, transfers, sources, now, handle, run, snap, nOk>>

CommitStock(t, p, l, quantity) ==
  /\ pc[t] = "idle" /\ Room(1)
  /\ LevelStep(t, Direct("commit_stock", p, l, quantity),
               commit_stock_cs(levels, p, l, quantity, OrderRef, now))
  /\ UNCHANGED <<locations, adjustments, transfers, sources, now, handle, run, snap, nOk>>

ReceiveStock(t, p, l, quantity) ==
  /\ pc[t] = "idle" /\ Room(1)
  /\ LevelStep(t, Direct("receive_stock", p, l, quantity),
               receive_stock_cs(levels, p, l, quantity, OrderRef, now))
  /\ UNCHANGED <<locations, adjustments, transfers, sources, now, handle, run, snap, nOk>>

\* A log that puts the newest entry first.
record_adjustment_in_front(log, adjustment) == <<adjustment>> \o log

\* A log that takes the entry handed to it twice.
record_adjustment_twice(log, adjustment) == Append(Append(log, adjustment), adjustment)

\* A log that drops the entry handed to it.
record_adjustment_dropped(log, adjustment) == log

\* record_adjustment: the second critical section of every stock operation.
record_adjustment(log, adjustment) == Append(log, adjustment)

RecordAdjustment(t) ==
  /\ pc[t] = "record"
  /\ Lock(t, "adjustments")
  /\ adjustments' = record_adjustment(adjustments, frame[t].adj)
  /\ nOk' = nOk + 1
  /\ Resume(t, OnRecorded(frame[t]), frame[t])
  /\ UNCHANGED <<levels, locations, transfers, sources, poisoned, overflow_checks, now,
                 handle, run, snap, nWrites>>

\* ------------------------------------------------------- location registry
LocationAlreadyExists(id) == [error |-> "LocationAlreadyExists", id |-> id]
LocationNotFound(id) == [error |-> "LocationNotFound", id |-> id]
TransferNotFound(id) == [error |-> "TransferNotFound", id |-> id]
InvalidTransferStatus == [error |-> "InvalidTransferStatus"]

\* A registry whose insert replaces the location registered under the id.
add_location_replacing(locs, location) ==
  [ret |-> Ok, locations |-> [locs EXCEPT ![location.id] = location]]

\* A registry with room for one location: an insert puts the location in
\* the place of the one registered.
add_location_single(locs, location) ==
  IF locs[location.id] # NoLocation
  THEN [ret |-> LocationAlreadyExists(location.id), locations |-> locs]
  ELSE [ret |-> Ok,
        locations |-> [l \in LocationIds |-> IF l = location.id THEN location ELSE NoLocation]]

add_location(locs, location) ==
  IF locs[location.id] # NoLocation
  THEN [ret |-> LocationAlreadyExists(location.id), locations |-> locs]
  ELSE [ret |-> Ok, locations |-> [locs EXCEPT ![location.id] = location]]

AddLocation(location) ==
  LET r == add_location(locations, location)
  IN  /\ locations' = r.locations
      /\ ev' = Event("add_location", [id |-> location.id, location |-> location], r.ret)
      /\ UNCHANGED <<levels, adjustments, transfers, sources, poisoned, overflow_checks,
                     now, pc, frame, handle, run, snap, nOk, nWrites, sched>>

\* get_location: a copy of the location, or LocationNotFound.
get_location(locs, id) == IF locs[id] = NoLocation THEN LocationNotFound(id) ELSE locs[id]

\* ---------------------------------------------------------- transfer engine
\* A transfer created without looking the two locations up.
create_transfer_unvalidated(locs, trs, from, to, time) ==
  LET transfer == StockTransfer_new(from, to, time)
  IN  [ret |-> transfer, transfers |-> [trs EXCEPT ![transfer.id] = transfer]]

create_transfer(locs, trs, from, to, time) ==
  IF locs[from] = NoLocation THEN [ret |-> LocationNotFound(from), transfers |-> trs]
  ELSE IF locs[to] = NoLocation THEN [ret |-> LocationNotFound(to), transfers |-> trs]
  ELSE LET transfer == StockTransfer_new(from, to, time)
       IN  [ret |-> transfer, transfers |-> [trs EXCEPT ![transfer.id] = transfer]]

\* The caller keeps the StockTransfer value it gets back (keep), or drops it.
CreateTransfer(t, from, to, keep) ==
  LET r == create_transfer(locations, transfers, from, to, now)
  IN  /\ pc[t] = "idle"
      /\ transfers' = r.transfers
      /\ handle' = IF keep /\ r.ret \notin {LocationNotFound(from), LocationNotFound(to)}
                   THEN [handle EXCEPT ![t] = r.ret] ELSE handle
      /\ ev' = Event("create_transfer", [from |-> from, to |-> to], r.ret)
      /\ UNCHANGED <<levels, locations, adjustments, sources, poisoned, overflow_checks,
                     now, pc, frame, run, snap, nOk, nWrites, sched>>

\* create_transfer critical section by critical section: get_location for the
\* source, get_location for the destination, then the insert under the
\* transfers lock.  Locations are never removed, so CreateTransfer above takes
\* the three as one step; runs that follow the locks take them one by one.
CreateTransferFrom(t, from, to) ==
  LET f == [op |-> "create_transfer", call |-> [from |-> from, to |-> to], adj |-> NoAdj]
      r == get_location(locations, from)
  IN  /\ pc[t] = "idle"
      /\ Lock(t, "locations")
      /\ IF r = LocationNotFound(from) THEN Resume(t, Next3("idle", NoFrame, r), f)
         ELSE Resume(t, Next3("to", f, Pending), f)
      /\ UNCHANGED <<levels, locations, adjustments, transfers, sources, poisoned,
                     overflow_checks, now, handle, run, snap, nOk, nWrites>>

CreateTransferTo(t) ==
  LET f == frame[t]
      r == get_location(locations, f.call.to)
  IN  /\ pc[t] = "to"
      /\ Lock(t, "locations")
      /\ IF r = LocationNotFound(f.call.to) THEN Resume(t, Next3("idle", NoFrame, r), f)
         ELSE Resume(t, Next3("insert", f, Pending), f)
      /\ UNCHANGED <<levels, locations, adjustments, transfers, sources, poisoned,
                     overflow_checks, now, handle, run, snap, nOk, nWrites>>

CreateTransferInsert(t) ==
  LET f == frame[t]
      transfer == StockTransfer_new(f.call.from, f.call.to, now)
  IN  /\ pc[t] = "insert"
      /\ Lock(t, "transfers")
      /\ transfers' = [transfers EXCEPT ![transfer.id] = transfer]
      /\ Resume(t, Next3("idle", NoFrame, transfer), f)
      /\ UNCHANGED <<levels, locations, adjustments, sources, poisoned, overflow_checks,
                     now, handle, run, snap, nOk, nWrites>>

\* The caller adds an item to the StockTransfer value create_transfer gave it.
HandleAddItem(t, p, quantity) ==
  /\ pc[t] = "idle"
  /\ handle[t] # NoTransfer
  /\ Len(handle[t].items) < MaxItems
  /\ handle' = [handle EXCEPT ![t] = add_item(@, p, quantity, now)]
  /\ ev' = Event("add_item", [id |-> handle[t].id], Ok)
  /\ UNCHANGED <<levels, locations, adjustments, transfers, sources, poisoned,
                 overflow_checks, now, pc, frame, run, snap, nOk, nWrites, sched>>

\* A caller adds an item to a stored transfer through the public transfers field.
StoredAddItem(id, p, quantity) ==
  /\ transfers[id] # NoTransfer
  /\ Len(transfers[id].items) < MaxItems
  /\ transfers' = [transfers EXCEPT ![id] = add_item(@, p, quantity, now)]
  /\ ev' = Event("stored_add_item", [id |-> id], Ok)
  /\ UNCHANGED <<levels, locations, adjustments, sources, poisoned, overflow_checks,
                 now, pc, frame, handle, run, snap, nOk, nWrites, sched>>

TransferRef(id) == <<"Transfer">> \o id

\* A first critical section of complete_transfer that does not look at the
\* status of the transfer.
complete_transfer_any_status(trs, id) ==
  IF trs[id] = NoTransfer THEN [ret |-> TransferNotFound(id)]
  ELSE [ret |-> Ok, items |-> trs[id].items, from_location |-> trs[id].from_location,
        to_location |-> trs[id].to_location]

\* complete_transfer, first critical section: look the transfer up, check its
\* status, clone its items and locations.
complete_transfer_begin(trs, id) ==
  IF trs[id] = NoTransfer THEN [ret |-> TransferNotFound(id)]
  ELSE IF trs[id].status # "Pending" /\ trs[id].status # "InProgress"
  THEN [ret |-> InvalidTransferStatus]
  ELSE [ret |-> Ok, items |-> trs[id].items, from_location |-> trs[id].from_location,
        to_location |-> trs[id].to_location]

CompleteTransfer(t, id) ==
  LET r == complete_transfer_begin(transfers, id)
      f == [op |-> "complete_transfer", call |-> [transfer_id |-> id], adj |-> NoAdj,
            phase |-> "commit"]
  IN  /\ pc[t] = "idle"
      /\ Lock(t, "transfers")
      /\ IF r.ret # Ok
         THEN Resume(t, Next3("idle", NoFrame, r.ret), f)
         ELSE /\ Room(2 * Len(r.items))
              /\ Resume(t, Next3(IF r.items = <<>> THEN "finish" ELSE "commit",
                                 [op |-> f.op, call |-> f.call, adj |-> NoAdj,
                                  phase |-> "commit", items |-> r.items,
                                  from_location |-> r.from_location,
                                  to_location |-> r.to_location], Pending), f)
      /\ snap' = IF run.observe THEN Snapshot ELSE snap
      /\ UNCHANGED <<levels, locations, adjustments, transfers, sources, poisoned,
                     overflow_checks, now, handle, run, nOk, nWrites>>

\* commit_stock at the source for the item at the head of the list.
TransferCommit(t) ==
  LET f == [frame[t] EXCEPT !.phase = "commit"]
      item == Head(f.items)
  IN  /\ pc[t] = "commit"
      /\ LevelStep(t, f, commit_stock_cs(levels, item.product_id, f.from_location,
                                         item.quantity, TransferRef(f.call.transfer_id), now))
      /\ UNCHANGED <<locations, adjustments, transfers, sources, now, handle, run, snap, nOk>>

\* receive_stock at the destination for the same item.
TransferReceive(t) ==
  LET f == [frame[t] EXCEPT !.phase = "receive"]
      item == Head(f.items)
  IN  /\ pc[t] = "receive"
      /\ LevelStep(t, f, receive_stock_cs(levels, item.product_id, f.to_location,
                                          item.quantity, TransferRef(f.call.transfer_id), now))
      /\ UNCHANGED <<locations, adjustments, transfers, sources, now, handle, run, snap, nOk>>

\* complete_transfer, last critical section: mark the stored transfer Completed.
complete_transfer_finish(trs, id, time) ==
  IF trs[id] = NoTransfer THEN [ret |-> TransferNotFound(id), transfers |-> trs]
  ELSE [ret |-> Ok,
        transfers |-> [trs EXCEPT ![id].status = "Completed", ![id].arrived_at = time]]

TransferFinish(t) ==
  LET r == complete_transfer_finish(transfers, frame[t].call.transfer_id, now)
  IN  /\ pc[t] = "finish"
      /\ Lock(t, "transfers")
      /\ transfers' = r.transfers
      /\ Resume(t, Next3("idle", NoFrame, r.ret), frame[t])
      /\ UNCHANGED <<levels, locations, adjustments, sources, poisoned, overflow_checks,
                     now, handle, run, snap, nOk, nWrites>>

\* ---------------------------------------------------------- sync reconciler
Change(p, l, quantity, type) ==
  [product_id |-> p, location_id |-> l, quantity |-> quantity, change_type |-> type]

SyncFrame(source_id, changes) ==
  [op |-> "apply_sync_changes", call |-> [source_id |-> source_id, changes |-> changes],
   adj |-> NoAdj, changes |-> changes, processed |-> 0, updated |-> 0, failed |-> 0,
   errors |-> <<>>]

\* apply_single_change for the change at the head of the list.
SyncStep(t, f) ==
  LevelStep(t, f, apply_single_change_cs(levels, Head(f.changes), f.call.source_id, now))

ApplySyncChanges(t, source_id, changes) ==
  LET f == SyncFrame(source_id, changes)
  IN  /\ pc[t] = "idle" /\ Room(Len(changes))
      /\ IF changes = <<>>
         THEN /\ NoLock(t)
              /\ Resume(t, Next3("idle", NoFrame, SyncResult(f)), f)
              /\ UNCHANGED <<levels, poisoned, overflow_checks, nWrites>>
         ELSE SyncStep(t, f)
      /\ snap' = IF run.observe THEN Snapshot ELSE snap
      /\ UNCHANGED <<locations, adjustments, transfers, sources, now, handle, run, nOk>>

SyncApply(t) ==
  /\ pc[t] = "sync"
  /\ SyncStep(t, frame[t])
  /\ UNCHANGED <<locations, adjustments, transfers, sources, now, handle, run, snap, nOk>>

\* register_source: the source is stored under its id.
register_source(srcs, source_id) == srcs \cup {source_id}

RegisterSource(t, source_id) ==
  /\ pc[t] = "idle"
  /\ Lock(t, "sources")
  /\ sources' = register_source(sources, source_id)
  /\ Resume(t, Next3("idle", NoFrame, Ok),
            [op |-> "register_source", call |-> [source_id |-> source_id]])
  /\ UNCHANGED <<levels, locations, adjustments, transfers, poisoned, overflow_checks,
                 now, handle, run, snap, nOk, nWrites>>

\* ------------------------------------------------------------------- queries
\* get_inventory: a copy of the record under the key, or InventoryNotFound.
get_inventory(lv, p, l) ==
  IF lv[<<p, l>>] = NoLevel THEN InventoryNotFound(p) ELSE lv[<<p, l>>]

\* Vec::sort_by(|a, b| b.created_at.cmp(&a.created_at)): a stable sort, most
\* recent first.
RECURSIVE sort_by_created_at_desc(_)
sort_by_created_at_desc(s) ==
  IF s = <<>> THEN <<>>
  ELSE LET h == Head(s)
           rest == sort_by_created_at_desc(Tail(s))
       IN  SelectSeq(rest, LAMBDA a : a.created_at > h.created_at)
             \o <<h>> \o SelectSeq(rest, LAMBDA a : a.created_at <= h.created_at)

\* get_adjustment_history: the product's entries, most recent first, cut to
\* the limit when one is given (NoLimit is None, <<n>> is Some(n)).
NoLimit == <<>>
get_adjustment_history(log, p, limit) ==
  LET history == sort_by_created_at_desc(SelectSeq(log, LAMBDA a : a.product_id = p))
  IN  IF limit = NoLimit THEN history
      ELSE SubSeq(history, 1, Min(limit[1], Len(history)))

\* A reader calls get_inventory, keeps what it returned ...
GetInventory(t, p, l) ==
  /\ pc[t] = "idle"
  /\ Lock(t, "levels")
  /\ LET call == [product_id |-> p, location_id |-> l]
         ret == IF poisoned THEN LockError ELSE get_inventory(levels, p, l)
     IN  /\ pc' = [pc EXCEPT ![t] = "read"]
         /\ frame' = [frame EXCEPT ![t] = [op |-> "read", call |-> call, level |-> ret]]
         /\ ev' = Event("get_inventory", call, ret)
  /\ UNCHANGED <<levels, locations, adjustments, transfers, sources, poisoned,
                 overflow_checks, now, handle, run, snap, nOk, nWrites>>

\* ... and then calls get_adjustment_history for the same product: ev holds
\* the level and the history the reader has observed.
GetAdjustmentHistory(t, limit) ==
  /\ pc[t] = "read"
  /\ Lock(t, "adjustments")
  /\ pc' = [pc EXCEPT ![t] = "idle"]
  /\ frame' = [frame EXCEPT ![t] = NoFrame]
  /\ ev' = Event("read", [product_id |-> frame[t].call.product_id,
                          location_id |-> frame[t].call.location_id, limit |-> limit],
                 [level |-> frame[t].level,
                  history |-> get_adjustment_history(adjustments,
                                                     frame[t].call.product_id, limit)])
  /\ UNCHANGED <<levels, locations, adjustments, transfers, sources, poisoned,
                 overflow_checks, now, handle, run, snap, nOk, nWrites>>

\* ------------------------------------------------------------- query layer
\* The thresholds InventoryLevel::new gives every record; no operation of the
\* service changes them.
low_stock_threshold == 10
reorder_point == 20
\* A low-stock test that looks at no threshold.
is_low_stock_unbounded(level) == level.available > 0

is_low_stock(level) == level.available > 0 /\ level.available <= low_stock_threshold
is_out_of_stock(level) == level.available <= 0
needs_reorder(level) == level.available <= reorder_point

\* The keys of the records the level store holds, and those of product p.
KeysOf(lv) == {k \in Keys : lv[k] # NoLevel}
KeysFor(lv, p) == {k \in KeysOf(lv) : k[1] = p}

\* The Vecs the level queries collect from the HashMap, whose order is not
\* defined: the records as a set.
get_all_inventory_for_product(lv, p) == {lv[k] : k \in KeysFor(lv, p)}
get_low_stock_products(lv) == {lv[k] : k \in {x \in KeysOf(lv) : is_low_stock(lv[x])}}
get_reorder_needed(lv) == {lv[k] : k \in {x \in KeysOf(lv) : needs_reorder(lv[x])}}
get_out_of_stock(lv) == {lv[k] : k \in {x \in KeysOf(lv) : is_out_of_stock(lv[x])}}

\* The orders in which a HashMap may yield the entries of the keys in S.
Orders(S) ==
  {o \in [1 .. Cardinality(S) -> S] : \A i, j \in 1 .. Cardinality(S) : i # j => o[i] # o[j]}

\* Iterator::sum on i64: a fold with the plain + from 0; total is the wrapped
\* sum, ovf whether an addition left the i64 range on the way.
RECURSIVE sum(_, _)
sum(acc, xs) ==
  IF xs = <<>> THEN acc
  ELSE sum([total |-> Wrap(acc.total + Head(xs)),
            ovf |-> acc.ovf \/ ~Fits(acc.total + Head(xs))], Tail(xs))

\* get_total_available: the sum of available over the records of product p,
\* taken in the order the HashMap yields them.
get_total_available(lv, p, order) ==
  sum([total |-> 0, ovf |-> FALSE], [n \in 1 .. Len(order) |-> lv[order[n]].available])

Total(n) == [total |-> n]

GetTotalAvailable(t, p) ==
  LET f == [op |-> "get_total_available", call |-> [product_id |-> p], adj |-> NoAdj]
  IN  /\ pc[t] = "idle"
      /\ Lock(t, "levels")
      /\ IF poisoned
         THEN /\ Resume(t, Next3("idle", NoFrame, LockError), f)
              /\ UNCHANGED <<poisoned, overflow_checks>>
         ELSE \E order \in Orders(KeysFor(levels, p)) :
                LET r == get_total_available(levels, p, order)
                IN  \E oc \in Profiles(r.ovf) :
                      /\ overflow_checks' = oc
                      /\ IF r.ovf /\ oc = "on"
                         THEN /\ poisoned' = TRUE
                              /\ Resume(t, Next3("panicked", NoFrame, Panicked), f)
                         ELSE /\ poisoned' = poisoned
                              /\ Resume(t, Next3("idle", NoFrame, Total(r.total)), f)
      /\ UNCHANGED <<levels, locations, adjustments, transfers, sources, now, handle, run,
                     snap, nOk, nWrites>>

\* A query that holds lock l while it reads and returns ret.
Query(t, l, op, call, ret) ==
  /\ pc[t] = "idle"
  /\ Lock(t, l)
  /\ ev' = Event(op, call, ret)
  /\ UNCHANGED <<levels, locations, adjustments, transfers, sources, poisoned,
                 overflow_checks, now, pc, frame, handle, run, snap, nOk, nWrites>>

NoArgs == [none |-> TRUE]
GetAllInventoryForProduct(t, p) ==
  Query(t, "levels", "get_all_inventory_for_product", [product_id |-> p],
        IF poisoned THEN LockError ELSE get_all_inventory_for_product(levels, p))
GetLowStockProducts(t) ==
  Query(t, "levels", "get_low_stock_products", NoArgs,
        IF poisoned THEN LockError ELSE get_low_stock_products(levels))
GetReorderNeeded(t) ==
  Query(t, "levels", "get_reorder_needed", NoArgs,
        IF poisoned THEN LockError ELSE get_reorder_needed(levels))
GetOutOfStock(t) ==
  Query(t, "levels", "get_out_of_stock", NoArgs,
        IF poisoned THEN LockError ELSE get_out_of_stock(levels))

\* get_active_locations: the registered locations whose is_active is set.
get_active_locations(locs) ==
  {locs[l] : l \in {x \in LocationIds : locs[x] # NoLocation /\ locs[x].is_active}}

GetLocation(t, id) ==
  Query(t, "locations", "get_location", [id |-> id], get_location(locations, id))
GetActiveLocations(t) ==
  Query(t, "locations", "get_active_locations", NoArgs, get_active_locations(locations))

\* A lookup that takes the transfer out of the store.
GetTransfer_taking(t, id) ==
  /\ pc[t] = "idle"
  /\ Lock(t, "transfers")
  /\ ev' = Event("get_transfer", [id |-> id],
                 IF transfers[id] = NoTransfer THEN TransferNotFound(id) ELSE transfers[id])
  /\ transfers' = [transfers EXCEPT ![id] = NoTransfer]
  /\ UNCHANGED <<levels, locations, adjustments, sources, poisoned, overflow_checks, now,
                 pc, frame, handle, run, snap, nOk, nWrites>>

\* get_transfer: a copy of the stored transfer, or TransferNotFound.
get_transfer(trs, id) == IF trs[id] = NoTransfer THEN TransferNotFound(id) ELSE trs[id]
GetTransfer(t, id) ==
  Query(t, "transfers", "get_transfer", [id |-> id], get_transfer(transfers, id))

\* ------------------------------------------------------ leaving a section
\* The guard thread t holds goes out of scope: the lock is free again.
Unlock(t) ==
  /\ run.locking
  /\ sched.inside[t] # Outside
  /\ sched' = [sched EXCEPT !.owner = release(@, t, sched.inside[t]),
                            !.inside[t] = Outside]
  /\ UNCHANGED <<levels, locations, adjustments, transfers, sources, poisoned,
                 overflow_checks, now, pc, frame, handle, run, ev, snap, nOk, nWrites>>

\* ------------------------------------------------------------------ the clock
Tick ==
  /\ now < MaxTime
  /\ now' = now + 1
  /\ ev' = NoEv
  /\ UNCHANGED <<levels, locations, adjustments, transfers, sources, poisoned,
                 overflow_checks, pc, frame, handle, run, snap, nOk, nWrites, sched>>

\* ------------------------------------------------------------ specification
\* The ledger under two caller threads.  Stock operations, sync batches and
\* transfers all work on product p1 at the default warehouse, so that every
\* operation meets every other on one record.  On-hand values set by callers:
\* a negative correction, a small stock count and the top of the i64 range;
\* a sync batch sets the bottom of the range.
WH == DefaultWarehouse
StockValues == {-1, MaxQty, I64_MAX}
Quantities == {1, MaxQty}
Batches ==
  {<<Change("p1", WH, I64_MIN, "Set")>>,
   <<Change("p1", WH, 1, "Increment"), Change("p1", WH, 1, "Decrement")>>}

Next ==
  \/ \E t \in Threads, v \in StockValues : SetInventory(t, "p1", WH, v)
  \/ \E t \in Threads, q \in Quantities : ReserveStock(t, "p1", WH, q)
  \/ \E t \in Threads, q \in Quantities : ReleaseStock(t, "p1", WH, q)
  \/ \E t \in Threads, q \in Quantities : CommitStock(t, "p1", WH, q)
  \/ \E t \in Threads, q \in Quantities : ReceiveStock(t, "p1", WH, q)
  \/ \E t \in Threads : RecordAdjustment(t)
  \/ \E t \in Threads, b \in Batches : ApplySyncChanges(t, "erp", b)
  \/ \E t \in Threads : SyncApply(t)
  \/ \E t \in Threads : CreateTransfer(t, WH, WH, FALSE)
  \/ \E i \in TransferIds : StoredAddItem(i, "p1", 1)
  \/ \E t \in Threads, i \in TransferIds : CompleteTransfer(t, i)
  \/ \E t \in Threads : TransferCommit(t)
  \/ \E t \in Threads : TransferReceive(t)
  \/ \E t \in Threads : TransferFinish(t)

Spec == Init /\ [][Next]_vars

\* Stock operations only, on a record whose on_hand callers set to a
\* non-negative count, while the clock advances.
CountedValues == {0, MaxQty}
StockNext ==
  \/ \E t \in Threads, v \in CountedValues : SetInventory(t, "p1", WH, v)
  \/ \E t \in Threads, q \in Quantities : ReserveStock(t, "p1", WH, q)
  \/ \E t \in Threads, q \in Quantities : ReleaseStock(t, "p1", WH, q)
  \/ \E t \in Threads, q \in Quantities : CommitStock(t, "p1", WH, q)
  \/ \E t \in Threads, q \in Quantities : ReceiveStock(t, "p1", WH, q)
  \/ \E t \in Threads : RecordAdjustment(t)
  \/ Tick

SpecStock == Init /\ [][StockNext]_vars

\* Concurrent reservations against one record: set_inventory has counted
\* between 0 and 2 * MaxQty units of p1 at the warehouse, and from then on the
\* two threads only call reserve_stock on that record.
InitReserve ==
  \E h \in 0 .. 2 * MaxQty :
    LET r == set_inventory_cs([k \in Keys |-> NoLevel], "p1", WH, h, "count", 0)
    IN  /\ levels = r.levels
        /\ adjustments = <<r.adj>>
        /\ nOk = 1 /\ nWrites = 1
        /\ locations = [l \in LocationIds |->
                          IF l = DefaultWarehouse
                          THEN InventoryLocation_warehouse(l, "Main Warehouse")
                          ELSE NoLocation]
        /\ transfers = [i \in TransferIds |-> NoTransfer]
        /\ sources = {}
        /\ poisoned = FALSE
        /\ overflow_checks = "unset"
        /\ now = 0
        /\ pc = [t \in Threads |-> "idle"]
        /\ frame = [t \in Threads |-> NoFrame]
        /\ handle = [t \in Threads |-> NoTransfer]
        /\ ev = NoEv
        /\ snap = NoSnapshot
        /\ run = Observed
        /\ sched = Unlocked

ReserveNext ==
  \/ \E t \in Threads, q \in 0 .. MaxQty : ReserveStock(t, "p1", WH, q)
  \/ \E t \in Threads : RecordAdjustment(t)

SpecReserve == InitReserve /\ [][ReserveNext]_vars

\* Recorded calls of the stock operations by two threads: every step leaves
\* in ev the call it belongs to and what the call returned.
CallNext ==
  \/ \E t \in Threads, v \in {-1, MaxQty, I64_MAX} : SetInventory(t, "p1", WH, v)
  \/ \E t \in Threads, p \in Products, q \in 0 .. MaxQty : ReserveStock(t, p, WH, q)
  \/ \E t \in Threads : CommitStock(t, "p1", WH, MaxQty)
  \/ \E t \in Threads : RecordAdjustment(t)

SpecCalls == InitObserved /\ [][CallNext]_vars

\* Recorded transfers by one caller between the warehouse and a store.  The
\* run starts after set_inventory has counted MaxQty units of p1 at the
\* warehouse and, in some runs, a count of p1 at the store up to the top of
\* the i64 range; p2 has no record anywhere.
Caller == "t1"
Store1 == "store-1"
StoreCounts == {<<>>, <<MaxQty>>, <<I64_MAX>>}
InitTransfer ==
  \E c \in StoreCounts :
    LET a == set_inventory_cs([k \in Keys |-> NoLevel], "p1", WH, MaxQty, "count", 0)
        b == set_inventory_cs(a.levels, "p1", Store1, IF c = <<>> THEN 0 ELSE c[1], "count", 0)
    IN  /\ levels = IF c = <<>> THEN a.levels ELSE b.levels
        /\ adjustments = IF c = <<>> THEN <<a.adj>> ELSE <<a.adj, b.adj>>
        /\ nOk = Len(adjustments) /\ nWrites = Len(adjustments)
        /\ locations = [l \in LocationIds |->
                          IF l = DefaultWarehouse
                          THEN InventoryLocation_warehouse(l, "Main Warehouse")
                          ELSE NoLocation]
        /\ transfers = [i \in TransferIds |-> NoTransfer]
        /\ sources = {}
        /\ poisoned = FALSE
        /\ overflow_checks = "unset"
        /\ now = 0
        /\ pc = [t \in Threads |-> "idle"]
        /\ frame = [t \in Threads |-> NoFrame]
        /\ handle = [t \in Threads |-> NoTransfer]
        /\ ev = NoEv
        /\ snap = NoSnapshot
        /\ run = Observed
        /\ sched = Unlocked

TransferNext ==
  \/ AddLocation(InventoryLocation_store(Store1, "Store 1"))
  \/ RecordAdjustment(Caller)
  \/ \E keep \in BOOLEAN : CreateTransfer(Caller, WH, Store1, keep)
  \/ HandleAddItem(Caller, "p1", 1)
  \/ \E i \in TransferIds, p \in Products : StoredAddItem(i, p, 1)
  \/ \E i \in TransferIds : CompleteTransfer(Caller, i)
  \/ TransferCommit(Caller)
  \/ TransferReceive(Caller)
  \/ TransferFinish(Caller)

SpecTransfer == InitTransfer /\ [][TransferNext]_vars

\* Recorded sync batches: one thread runs apply_sync_changes for source "erp"
\* while the other corrects the count of p1 at the warehouse with
\* set_inventory, from a negative correction up to the top of the i64 range.
\* The batches: the empty one, an increment followed by a decrement, the
\* bottom of the range followed by a decrement, and two products.
Counter == "t2"
SyncBatches ==
  {<<>>,
   <<Change("p1", WH, 1, "Increment"), Change("p1", WH, 1, "Decrement")>>,
   <<Change("p1", WH, I64_MIN, "Set"), Change("p1", WH, 1, "Decrement")>>,
   <<Change("p2", WH, MaxQty, "Set"), Change("p1", WH, 1, "Increment")>>}
SyncNext ==
  \/ \E b \in SyncBatches : ApplySyncChanges(Caller, "erp", b)
  \/ SyncApply(Caller)
  \/ \E t \in Threads : RecordAdjustment(t)
  \/ \E v \in {-1, I64_MAX} : SetInventory(Counter, "p1", WH, v)

SpecSync == InitObserved /\ [][SyncNext]_vars

\* A recorded reader beside a writer: one thread counts and receives stock of
\* p1 at the warehouse while the other reads a level and then the history,
\* and the clock advances.
Writer == "t1"
Reader == "t2"
Limits == {NoLimit, <<1>>}
ReadNext ==
  \/ SetInventory(Writer, "p1", WH, MaxQty)
  \/ ReceiveStock(Writer, "p1", WH, 1)
  \/ RecordAdjustment(Writer)
  \/ \E p \in Products : GetInventory(Reader, p, WH)
  \/ \E limit \in Limits : GetAdjustmentHistory(Reader, limit)
  \/ Tick

SpecRead == InitObserved /\ [][ReadNext]_vars

\* The five locks under two threads that each invoke a finite number of
\* ledger operations: stock operations, queries, create_transfer,
\* complete_transfer, apply_sync_changes and register_source; set_inventory
\* corrects p1's count down to -1 and up to the top of the range.  The run starts
\* after set_inventory has counted MaxQty units of p1 at the warehouse and a
\* transfer of one unit of p1 within the warehouse has been created.
Seeded == TransferId(0)
InitLocks ==
  LET a == set_inventory_cs([k \in Keys |-> NoLevel], "p1", WH, MaxQty, "count", 0)
  IN  /\ levels = a.levels
      /\ adjustments = <<a.adj>>
      /\ nOk = 1 /\ nWrites = 1
      /\ locations = [l \in LocationIds |->
                        IF l = DefaultWarehouse
                        THEN InventoryLocation_warehouse(l, "Main Warehouse")
                        ELSE NoLocation]
      /\ transfers = [i \in TransferIds |->
                        IF i = Seeded
                        THEN add_item(StockTransfer_new(WH, WH, 0), "p1", 1, 0)
                        ELSE NoTransfer]
      /\ sources = {}
      /\ poisoned = FALSE
      /\ overflow_checks = "unset"
      /\ now = 0
      /\ pc = [t \in Threads |-> "idle"]
      /\ frame = [t \in Threads |-> NoFrame]
      /\ handle = [t \in Threads |-> NoTransfer]
      /\ ev = NoEv
      /\ snap = NoSnapshot
      /\ run = Locking
      /\ sched = Unlocked

\* The steps of a call thread t is in, after its first.
Continue(t) ==
  \/ Unlock(t)
  \/ RecordAdjustment(t)
  \/ GetAdjustmentHistory(t, NoLimit)
  \/ CreateTransferTo(t)
  \/ CreateTransferInsert(t)
  \/ TransferCommit(t)
  \/ TransferReceive(t)
  \/ TransferFinish(t)
  \/ SyncApply(t)

LocksNext ==
  \/ \E t \in Threads, v \in {-1, I64_MAX} : SetInventory(t, "p1", WH, v)
  \/ \E t \in Threads : ReserveStock(t, "p1", WH, 1)
  \/ \E t \in Threads : GetInventory(t, "p1", WH)
  \/ \E t \in Threads, from \in LocationIds : CreateTransferFrom(t, from, from)
  \/ \E t \in Threads : CreateTransferFrom(t, WH, Store1)
  \/ \E t \in Threads : CompleteTransfer(t, Seeded)
  \/ \E t \in Threads : ApplySyncChanges(t, "erp", <<Change("p1", WH, 1, "Increment"),
                                                              Change("p1", WH, 1, "Decrement")>>)
  \/ \E t \in Threads : RegisterSource(t, "erp")
  \/ \E t \in Threads : Continue(t)

SpecLocks == InitLocks /\ [][LocksNext]_vars

\* The same under fair scheduling: a thread whose next step can be taken is
\* not held back forever.
SpecLocksFair == SpecLocks /\ \A t \in Threads : WF_vars(Continue(t))

\* Recorded calls on keys with and without a record: one thread calls the
\* stock operations, get_inventory and one-change sync batches on p1 and p2
\* at the warehouse, while the other corrects p1's count, from a negative
\* correction to the top of the i64 range.
KeysNext ==
  \/ \E p \in Products : SetInventory(Caller, p, WH, MaxQty)
  \/ \E v \in {-1, I64_MAX} : SetInventory(Counter, "p1", WH, v)
  \/ \E p \in Products : ReserveStock(Caller, p, WH, 1)
  \/ \E p \in Products : ReleaseStock(Caller, p, WH, 1)
  \/ \E p \in Products : CommitStock(Caller, p, WH, 1)
  \/ \E p \in Products : ReceiveStock(Caller, p, WH, 1)
  \/ \E p \in Products : GetInventory(Caller, p, WH)
  \/ GetAdjustmentHistory(Caller, NoLimit)
  \/ \E p \in Products : ApplySyncChanges(Caller, "erp", <<Change(p, WH, 1, "Decrement")>>)
  \/ \E t \in Threads : RecordAdjustment(t)

SpecKeys == InitRecorded /\ [][KeysNext]_vars

\* An order on a fresh record, by one caller: set_inventory with a count from
\* 0 to the top of the i64 range, then reserve_stock and commit_stock with
\* quantities over the same range.
Counts == 0 .. I64_MAX
OrderNext ==
  \/ \E n \in Counts : SetInventory(Caller, "p1", WH, n)
  \/ \E q \in Counts : ReserveStock(Caller, "p1", WH, q)
  \/ \E q \in Counts : CommitStock(Caller, "p1", WH, q)
  \/ RecordAdjustment(Caller)

SpecOrder == InitRecorded /\ [][OrderNext]_vars

\* The location registry and the transfers, by one caller whose calls are
\* recorded: locations are added under both ids, as a warehouse and as a
\* store; transfers are created between every pair of ids, registered or
\* not, and looked up; p1 is counted at the warehouse; the clock advances.
RegistryNext ==
  \/ \E id \in LocationIds : AddLocation(InventoryLocation_warehouse(id, "Depot"))
  \/ \E id \in LocationIds : AddLocation(InventoryLocation_store(id, "Shop"))
  \/ \E id \in LocationIds : GetLocation(Caller, id)
  \/ GetActiveLocations(Caller)
  \/ \E from \in LocationIds, to \in LocationIds : CreateTransfer(Caller, from, to, FALSE)
  \/ \E i \in TransferIds : GetTransfer(Caller, i)
  \/ SetInventory(Caller, "p1", WH, MaxQty)
  \/ RecordAdjustment(Caller)
  \/ Tick

SpecRegistry == InitRecorded /\ [][RegistryNext]_vars

\* The query layer beside a writer, with recorded calls: one thread counts
\* p1 at the warehouse (a negative correction, or the top of the i64 range)
\* and at the store, and p2 at the warehouse, registers the store and a source
\* and creates a transfer, while the other thread calls every query.
CountValues == {-1, I64_MAX}
QueriesNext ==
  \/ \E v \in CountValues : SetInventory(Writer, "p1", WH, v)
  \/ SetInventory(Writer, "p1", Store1, 1)
  \/ SetInventory(Writer, "p2", WH, MaxQty)
  \/ RecordAdjustment(Writer)
  \/ AddLocation(InventoryLocation_store(Store1, "Shop"))
  \/ CreateTransfer(Writer, WH, WH, FALSE)
  \/ RegisterSource(Writer, "erp")
  \/ GetInventory(Reader, "p1", WH)
  \/ GetAdjustmentHistory(Reader, NoLimit)
  \/ \E p \in Products : GetTotalAvailable(Reader, p)
  \/ GetAllInventoryForProduct(Reader, "p1")
  \/ GetLowStockProducts(Reader)
  \/ GetReorderNeeded(Reader)
  \/ GetOutOfStock(Reader)
  \/ \E id \in LocationIds : GetLocation(Reader, id)
  \/ GetActiveLocations(Reader)
  \/ \E i \in TransferIds : GetTransfer(Reader, i)

SpecQueries == InitRecorded /\ [][QueriesNext]_vars

\* The threshold queries, by one caller whose calls are recorded: p1 is
\* counted at the warehouse at, just below and just above zero and the two
\* thresholds, p2 at the top of the range, a unit of p1 is reserved, and the
\* three queries are called.
ThresholdCounts ==
  {-1, 0, 1, low_stock_threshold, low_stock_threshold + 1, reorder_point, reorder_point + 1}
ThresholdsNext ==
  \/ \E v \in ThresholdCounts : SetInventory(Caller, "p1", WH, v)
  \/ SetInventory(Caller, "p2", WH, I64_MAX)
  \/ ReserveStock(Caller, "p1", WH, 1)
  \/ RecordAdjustment(Caller)
  \/ GetLowStockProducts(Caller)
  \/ GetReorderNeeded(Caller)
  \/ GetOutOfStock(Caller)

SpecThresholds == InitRecorded /\ [][ThresholdsNext]_vars

\* Two threads complete one transfer.  The run starts after set_inventory has
\* counted MaxQty units of p1 at the warehouse, the store has been registered
\* and a transfer of one unit of p1 from the warehouse to the store has been
\* created; it is the only transfer, and nothing else touches the ledger.
InitRace ==
  LET a == set_inventory_cs([k \in Keys |-> NoLevel], "p1", WH, MaxQty, "count", 0)
  IN  /\ levels = a.levels
      /\ adjustments = <<a.adj>>
      /\ nOk = 1 /\ nWrites = 1
      /\ locations = [l \in LocationIds |->
                        IF l = DefaultWarehouse
                        THEN InventoryLocation_warehouse(l, "Main Warehouse")
                        ELSE InventoryLocation_store(l, "Shop")]
      /\ transfers = [i \in TransferIds |->
                        IF i = Seeded
                        THEN add_item(StockTransfer_new(WH, Store1, 0), "p1", 1, 0)
                        ELSE NoTransfer]
      /\ sources = {}
      /\ poisoned = FALSE
      /\ overflow_checks = "unset"
      /\ now = 0
      /\ pc = [t \in Threads |-> "idle"]
      /\ frame = [t \in Threads |-> NoFrame]
      /\ handle = [t \in Threads |-> NoTransfer]
      /\ ev = NoEv
      /\ snap = NoSnapshot
      /\ run = Observed
      /\ sched = Unlocked

RaceNext ==
  \/ \E t \in Threads : CompleteTransfer(t, Seeded)
  \/ \E t \in Threads : TransferCommit(t)
  \/ \E t \in Threads : TransferReceive(t)
  \/ \E t \in Threads : RecordAdjustment(t)
  \/ \E t \in Threads : TransferFinish(t)
  \/ Tick

SpecRace == InitRace /\ [][RaceNext]_vars

\* Two threads count and receive small quantities of p1 at the warehouse:
\* every adjustment records the on_hand before and after its own update, and
\* no sum leaves the i64 range.
InterleaveNext ==
  \/ \E t \in Threads, v \in 1 .. MaxQty : SetInventory(t, "p1", WH, v)
  \/ \E t \in Threads : ReceiveStock(t, "p1", WH, 1)
  \/ \E t \in Threads : RecordAdjustment(t)

SpecInterleave == Init /\ [][InterleaveNext]_vars

\* ------------------------------------------------------------------- claims
Stored == {k \in Keys : levels[k] # NoLevel}
Idle == \A t \in Threads : pc[t] = "idle"

\* C1 as stated: every stored level has available = on_hand - committed -
\* damaged exactly.  (Stated here for the records whose committed is not
\* negative, so that what refutes it owes nothing to a release below zero.)
C1_ExactEquation ==
  \A k \in Stored :
    levels[k].committed >= 0 =>
      levels[k].available = levels[k].on_hand - levels[k].committed - levels[k].damaged

\* C1, amended: in every state, also between the two critical sections of a
\* running operation, every stored level has available equal to on_hand -
\* committed - damaged computed with the saturating i64 subtraction, that is
\* clamped to the i64 range; it is the exact difference whenever on_hand -
\* committed and the result fit in an i64.
C1_AvailableRecomputed ==
  \A k \in Stored :
    LET d == levels[k].on_hand - levels[k].committed
    IN  /\ levels[k].available = Clamp(Clamp(d) - levels[k].damaged)
        /\ (Fits(d) /\ Fits(d - levels[k].damaged)) =>
             levels[k].available = d - levels[k].damaged

\* A reader between the critical sections of an operation sees a record with
\* reserved stock whose on_hand sits at the bottom of the i64 range.
C1_Witness ==
  \E k \in Stored :
    /\ levels[k].on_hand = I64_MIN /\ levels[k].committed > 0
    /\ \E t \in Threads : pc[t] = "record"

StockOps == {"set_inventory", "reserve_stock", "release_stock", "commit_stock", "receive_stock"}
C6_OnHandBeforeAfter ==
  [][\A t \in Threads :
       (/\ pc[t] = "idle" /\ pc'[t] = "record"
        /\ frame'[t].op \in StockOps
        /\ frame'[t].call.arg \in 0 .. MaxQty) =>
         LET a == frame'[t].adj
             k == <<a.product_id, a.location_id>>
             before == IF levels[k] = NoLevel THEN 0 ELSE levels[k].on_hand
             held == IF levels[k] = NoLevel THEN 0 ELSE levels[k].committed
         IN  (before \in 0 .. MaxQty /\ held \in 0 .. MaxQty) =>
               /\ a.previous_quantity = before
               /\ a.new_quantity = a.previous_quantity + a.quantity
               /\ a.new_quantity = levels'[k].on_hand]_vars

\* C7: wherever reserve_stock(p, l, q) succeeds, release_stock(p, l, q) run
\* directly after it succeeds too, neither overflows, and it leaves committed
\* and available of the record as they were before the reservation, and
\* on_hand untouched.
C7_ReserveReleaseRoundTrip ==
  \A k \in Stored, q \in 0 .. MaxQty :
    LET r == reserve_stock_cs(levels, k[1], k[2], q, OrderRef, now)
        s == release_stock_cs(r.levels, k[1], k[2], q, OrderRef, now)
    IN  r.kind = "ok" =>
          /\ s.kind = "ok" /\ ~r.ovf /\ ~s.ovf
          /\ s.levels[k].committed = levels[k].committed
          /\ s.levels[k].available = levels[k].available
          /\ s.levels[k].on_hand = levels[k].on_hand
          /\ r.levels[k].committed = levels[k].committed + q

\* A reservation of q units has been released again with nothing in between:
\* the log ends with the Reserved and the Unreserved entry of the same
\* quantity, and the record, which already held a reservation, is back at the
\* committed quantity the Reserved entry recorded.
C7_Witness ==
  /\ Idle /\ Len(adjustments) = 3
  /\ adjustments[2].adjustment_type = "Reserved"
  /\ adjustments[3].adjustment_type = "Unreserved"
  /\ adjustments[2].quantity = -adjustments[3].quantity
  /\ adjustments[3].previous_quantity = adjustments[2].new_quantity
  /\ \E k \in Stored :
       /\ levels[k].committed = adjustments[2].previous_quantity
       /\ levels[k].available = levels[k].on_hand - levels[k].committed
       /\ levels[k].on_hand > 0

\* The quantity reserved by the reservations that have succeeded: those in the
\* log and those of the calls that have left the level store and are about to
\* write their log entry.
RECURSIVE ReservedIn(_)
ReservedIn(log) ==
  IF log = <<>> THEN 0
  ELSE (IF log[1].adjustment_type = "Reserved" THEN log[1].quantity ELSE 0)
       + ReservedIn(Tail(log))

RECURSIVE ReservedBy(_)
ReservedBy(ts) ==
  IF ts = {} THEN 0
  ELSE LET t == CHOOSE x \in ts : TRUE
       IN  (IF pc[t] = "record" THEN frame[t].adj.quantity ELSE 0) + ReservedBy(ts \ {t})

Granted == ReservedIn(adjustments) + ReservedBy(Threads)

\* C2: with only reserve_stock calls running concurrently against a record,
\* the reservations that have succeeded total no more than the quantity that
\* was available before the first of them (the counted on_hand, which the
\* first log entry holds), committed is exactly their total, and committed <=
\* on_hand - damaged holds in every state.
C2_NeverOversold ==
  LET level == levels[<<"p1", WH>>]
  IN  /\ Granted <= adjustments[1].new_quantity
      /\ level.committed = Granted
      /\ level.committed <= level.on_hand - level.damaged
      /\ level.on_hand = adjustments[1].new_quantity

\* Two reservations of MaxQty units raced for a record holding MaxQty units:
\* one has taken them all and is about to log, the other has been refused.
C2_Witness ==
  LET level == levels[<<"p1", WH>>]
  IN  /\ level.on_hand = MaxQty /\ level.committed = MaxQty /\ level.available = 0
      /\ \E t, u \in Threads :
           /\ t # u
           /\ pc[t] = "record" /\ frame[t].adj.quantity = MaxQty
           /\ pc[u] = "idle" /\ ev.op = "reserve_stock" /\ ev.call.arg = MaxQty
           /\ ev.ret = InsufficientInventory("p1", 0, MaxQty)

\* C4 as stated: with on_hand only ever set to non-negative values, after any
\* reserve_stock, release_stock, commit_stock and receive_stock calls every
\* record has on_hand >= 0 and committed >= 0.
C4_NeverBelowZero ==
  \A k \in Stored : levels[k].on_hand >= 0 /\ levels[k].committed >= 0

\* The step just taken is the level-store critical section of a reserve_stock
\* call (ev' names the call; only the later log append returns Ok).
ReserveStep == ev'.op = "reserve_stock" /\ ev'.ret # Ok

\* C3 as stated: reserve_stock with quantity > available fails with
\* InsufficientInventory carrying the record's current available and the
\* requested quantity, and leaves the levels and the log as they were.
C3_CarriesAvailable ==
  [][ReserveStep =>
       LET p == ev'.call.product_id
           q == ev'.call.arg
           level == levels[<<p, ev'.call.location_id>>]
       IN  (level # NoLevel /\ q > level.available /\ ~poisoned) =>
             /\ ev'.ret = InsufficientInventory(p, level.available, q)
             /\ UNCHANGED <<levels, adjustments>>]_vars

\* C3, amended: when the level store can be locked, reserve_stock with
\* quantity > available fails with InsufficientInventory whose requested
\* field is the requested quantity and whose available field is the record's
\* current available, or 0 when that is negative; it leaves the levels and
\* the log as they were.  A reservation is granted only when quantity <=
\* available.
C3_CarriesAvailableFromZero ==
  [][ReserveStep =>
       LET p == ev'.call.product_id
           q == ev'.call.arg
           level == levels[<<p, ev'.call.location_id>>]
       IN  /\ (level # NoLevel /\ q > level.available /\ ~poisoned) =>
                /\ ev'.ret = InsufficientInventory(p, Max(level.available, 0), q)
                /\ UNCHANGED <<levels, adjustments>>
           /\ ev'.ret = Pending => (level # NoLevel /\ q <= level.available)]_vars

\* reserve_stock has just been refused on a record whose available quantity
\* is negative: the error reports 0 units available.
C3_Witness ==
  /\ levels[<<"p1", WH>>] # NoLevel
  /\ levels[<<"p1", WH>>].available < 0
  /\ ev.op = "reserve_stock"
  /\ ev.ret = InsufficientInventory("p1", 0, ev.call.arg)

\* Quantities of a transfer and of the ledger, for the transfer claims.
RECURSIVE QuantityOf(_, _)
QuantityOf(items, p) ==
  IF items = <<>> THEN 0
  ELSE (IF items[1].product_id = p THEN items[1].quantity ELSE 0) + QuantityOf(Tail(items), p)
OnHand(lv, p, l) == IF lv[<<p, l>>] = NoLevel THEN 0 ELSE lv[<<p, l>>].on_hand
Returned(r) == ev.op = "complete_transfer" /\ ev.ret = r
Failure(r) == "error" \in DOMAIN r

\* C8 as stated: when complete_transfer has returned Ok for a transfer from A
\* to B (A # B), then for every product of its items, with q the quantity it
\* carries, on_hand at A is lower by exactly q and on_hand at B higher by
\* exactly q than when the call began (nothing else touched the records).
C8_MovedExactly ==
  Returned(Ok) =>
    LET T == snap.transfers[ev.call.transfer_id]
    IN  \A p \in Products :
          LET q == QuantityOf(T.items, p)
          IN  (q > 0 /\ T.from_location # T.to_location) =>
                /\ OnHand(levels, p, T.from_location)
                     = OnHand(snap.levels, p, T.from_location) - q
                /\ OnHand(levels, p, T.to_location)
                     = OnHand(snap.levels, p, T.to_location) + q

\* C9 as stated: after create_transfer(A, B) returned T and the caller added
\* items to T with add_item, a complete_transfer(T.id) that returns Ok has
\* debited the quantity of each of T's products at A and credited it at B.
C9_ReturnedTransferMoved ==
  (Returned(Ok) /\ handle[Caller] # NoTransfer
                /\ handle[Caller].id = ev.call.transfer_id) =>
    \A p \in Products :
      LET q == QuantityOf(handle[Caller].items, p)
      IN  q > 0 =>
            /\ OnHand(levels, p, handle[Caller].from_location)
                 = OnHand(snap.levels, p, handle[Caller].from_location) - q
            /\ OnHand(levels, p, handle[Caller].to_location)
                 = OnHand(snap.levels, p, handle[Caller].to_location) + q

\* C10 as stated: when complete_transfer has returned an error, every level
\* and the log are as they were when the call began and the status of the
\* transfer is unchanged; when it has returned Ok the status is Completed.
C10_AllOrNothing ==
  /\ (ev.op = "complete_transfer" /\ Failure(ev.ret)) =>
       /\ levels = snap.levels
       /\ adjustments = snap.adjustments
       /\ \A i \in TransferIds :
            transfers[i] # NoTransfer =>
              /\ snap.transfers[i] # NoTransfer
              /\ transfers[i].status = snap.transfers[i].status
  /\ Returned(Ok) => transfers[ev.call.transfer_id].status = "Completed"

\* C11 as stated: the status of a stored transfer only moves forward along
\* Pending -> InProgress -> Completed, or to Cancelled from Pending or
\* InProgress; no step takes a stored transfer id out of the table or from
\* Completed or Cancelled back to another status.
StatusMoves ==
  {<<"Pending", "InProgress">>, <<"Pending", "Completed">>, <<"InProgress", "Completed">>,
   <<"Pending", "Cancelled">>, <<"InProgress", "Cancelled">>}
C11_StatusOnlyForward ==
  [][\A i \in TransferIds :
       transfers[i] # NoTransfer =>
         /\ transfers'[i] # NoTransfer
         /\ \/ transfers'[i].status = transfers[i].status
            \/ <<transfers[i].status, transfers'[i].status>> \in StatusMoves]_vars

\* C12: complete_transfer on an id that is not in the transfer table returns
\* TransferNotFound, and on a transfer whose status is Completed or Cancelled
\* it returns InvalidTransferStatus; in both cases the call ends there and
\* the levels, the log and the transfer table are unchanged.
C12_RefusedUntouched ==
  [][(pc[Caller] = "idle" /\ ev'.op = "complete_transfer") =>
       LET i == ev'.call.transfer_id
       IN  /\ transfers[i] = NoTransfer =>
                /\ ev'.ret = TransferNotFound(i)
                /\ pc'[Caller] = "idle"
                /\ UNCHANGED <<levels, adjustments, transfers>>
           /\ transfers[i] # NoTransfer =>
                /\ \A st \in {"Completed", "Cancelled"} :
                     complete_transfer_begin([transfers EXCEPT ![i].status = st], i).ret
                       = InvalidTransferStatus
                /\ transfers[i].status \in {"Completed", "Cancelled"} =>
                     /\ ev'.ret = InvalidTransferStatus
                     /\ pc'[Caller] = "idle"
                     /\ UNCHANGED <<levels, adjustments, transfers>>]_vars

\* complete_transfer has just been refused on a transfer that an earlier call
\* completed, moving its item: the log still holds only that one movement.
C12_Witness ==
  /\ Returned(InvalidTransferStatus)
  /\ transfers[ev.call.transfer_id].status = "Completed"
  /\ transfers[ev.call.transfer_id].items # <<>>
  /\ Len(adjustments) = Len(snap.adjustments)
  /\ \E n \in 1 .. Len(adjustments) :
       adjustments[n].reference = TransferRef(ev.call.transfer_id)

\* C13 as stated: a successful create_transfer stores the new transfer under
\* an id that was not in the transfer table, so it replaces no stored
\* transfer.
C13_FreshTransferId ==
  [][(ev'.op = "create_transfer" /\ ~Failure(ev'.ret)) =>
       transfers[ev'.ret.id] = NoTransfer]_vars

\* The entries of a log written by apply_single_change for a source.
SyncEntries(log, source_id) ==
  {n \in 1 .. Len(log) : log[n].reason = <<"Sync from", source_id>>}
\* A call of apply_sync_changes has just returned a SyncResult.
SyncReturned == ev.op = "apply_sync_changes" /\ "items_processed" \in DOMAIN ev.ret
\* The changes of that call that were applied: each wrote one entry to the log.
SyncApplied ==
  Cardinality(SyncEntries(adjustments, ev.call.source_id))
    - Cardinality(SyncEntries(snap.adjustments, ev.call.source_id))

\* C14: when apply_sync_changes returns for a batch of N changes of which k
\* failed (N - k were applied), the result has items_processed = N,
\* items_failed = k, items_updated = N - k, an errors list of length k, and
\* status Success if k = 0, Partial if 0 < k < N, Failed if k = N.
C14_SyncTally ==
  SyncReturned =>
    LET N == Len(ev.call.changes)
        k == N - SyncApplied
    IN  /\ ev.ret.items_processed = N
        /\ ev.ret.items_failed = k
        /\ ev.ret.items_updated = N - k
        /\ Len(ev.ret.errors) = k
        /\ ev.ret.status = IF k = 0 THEN "Success"
                           ELSE IF k < N THEN "Partial" ELSE "Failed"

\* A batch of two changes came back Partial: the first was applied, the
\* second failed.
C14_Witness ==
  /\ SyncReturned
  /\ Len(ev.call.changes) = 2 /\ SyncApplied = 1
  /\ ev.ret.status = "Partial" /\ ev.ret.items_failed = 1

\* C15 as stated: every step of an apply_sync_changes call either leaves the
\* call running or returns a SyncResult that has processed the whole batch
\* (never an error, never an abort), and a step that counts a change as failed
\* leaves the level store and the adjustment log unchanged.
C15_FailureNeverAborts ==
  [][(ev'.op = "apply_sync_changes") =>
       /\ \/ ev'.ret = Pending
          \/ /\ "items_processed" \in DOMAIN ev'.ret
             /\ ev'.ret.items_processed = Len(ev'.call.changes)
       /\ (pc[Caller] \in {"idle", "sync"} /\ pc'[Caller] \in {"idle", "sync"}
             /\ ev'.call.changes # <<>>)
            => UNCHANGED <<levels, adjustments>>]_vars

\* Thread t's call of apply_sync_changes applies a change in this step.
SyncApplies(t) ==
  /\ pc[t] \in {"idle", "sync"}
  /\ pc'[t] = "record" /\ frame'[t].op = "apply_sync_changes"
\* The change it applies, and the record it finds (created with all
\* quantities zero when absent).
SyncChange(t) == Head(frame'[t].changes)
SyncFound(t) ==
  LET c == SyncChange(t)
      key == <<c.product_id, c.location_id>>
  IN  IF levels[key] = NoLevel THEN InventoryLevel_new(c.product_id, c.location_id)
      ELSE levels[key]
\* The step applies the next change of the batch in batch order and leaves
\* the record with the given on_hand, committed and damaged as found,
\* available recomputed and every other record untouched.
SyncEffect(t, on_hand) ==
  LET c == SyncChange(t)
      key == <<c.product_id, c.location_id>>
      f == frame'[t]
  IN  /\ c = f.call.changes[f.processed + 1]
      /\ f.processed = f.updated + f.failed
      /\ levels'[key] # NoLevel
      /\ levels'[key].on_hand = on_hand
      /\ levels'[key].committed = SyncFound(t).committed
      /\ levels'[key].damaged = SyncFound(t).damaged
      /\ levels'[key] = recalculate_available(levels'[key])
      /\ \A k \in Keys \ {key} : levels'[k] = levels[k]

\* C16 as stated: a successfully applied sync change makes on_hand equal to
\* quantity for Set, on_hand + quantity for Increment and on_hand - quantity
\* for Decrement.
C16_SyncChangeExact ==
  [][\A t \in Threads : SyncApplies(t) =>
       LET c == SyncChange(t)
           h == SyncFound(t).on_hand
       IN  SyncEffect(t, CASE c.change_type = "Set" -> c.quantity
                           [] c.change_type = "Increment" -> h + c.quantity
                           [] c.change_type = "Decrement" -> h - c.quantity)]_vars

\* C16, amended: Increment and Decrement saturate at the bounds of the i64
\* range, so on_hand becomes quantity for Set, on_hand + quantity for
\* Increment and on_hand - quantity for Decrement, each clamped to the range.
C16_SyncChangeSaturating ==
  [][\A t \in Threads : SyncApplies(t) =>
       LET c == SyncChange(t)
           h == SyncFound(t).on_hand
       IN  SyncEffect(t, CASE c.change_type = "Set" -> c.quantity
                           [] c.change_type = "Increment" -> Clamp(h + c.quantity)
                           [] c.change_type = "Decrement" -> Clamp(h - c.quantity))]_vars

\* An Increment has been applied to a record at the top of the range:
\* on_hand stays at the top.
C16_Witness ==
  \E t \in Threads :
    /\ pc[t] = "record" /\ frame[t].op = "apply_sync_changes"
    /\ Head(frame[t].changes).change_type = "Increment"
    /\ frame[t].adj.previous_quantity = I64_MAX - 1
    /\ levels[<<"p1", WH>>].on_hand = I64_MAX

\* C17 as stated: the adjustment built for a successfully applied sync change
\* is attributed to the source, its previous_quantity is the record's on_hand
\* before the change, its quantity the signed difference applied and its
\* new_quantity the on_hand after the change; and the call appends exactly
\* that one adjustment to the log.
C17_SyncAdjustmentReconstructs ==
  [][\A t \in Threads :
       /\ SyncApplies(t) =>
            LET c == SyncChange(t)
                before == SyncFound(t).on_hand
                after == levels'[<<c.product_id, c.location_id>>].on_hand
                a == frame'[t].adj
            IN  /\ a.reason = <<"Sync from", frame'[t].call.source_id>>
                /\ a.product_id = c.product_id /\ a.location_id = c.location_id
                /\ a.previous_quantity = before
                /\ a.quantity = after - before
                /\ a.new_quantity = after
       /\ (pc[t] = "record" /\ frame[t].op = "apply_sync_changes" /\ pc'[t] # "record")
            => adjustments' = Append(adjustments, frame[t].adj)]_vars

\* Threads that have written a level and not (or never will have) logged it:
\* between the two critical sections of a stock operation, or dead of a panic
\* in the first.
Unlogged == {t \in Threads : pc[t] \in {"record", "panicked"}}

\* C18: the level update and the log append of a stock operation are two
\* separate critical sections: no step changes both the level store and the
\* log, and the level updates that the log does not hold yet are exactly
\* those of the operations between their two critical sections.
C18_UpdateThenAppend ==
  [][/\ levels' = levels \/ adjustments' = adjustments
     /\ nWrites' = Len(adjustments') + Cardinality(Unlogged')]_vars

\* The reader has observed p1's level as the writer's operation in flight
\* left it, and the full history of p1 without that operation's entry.
C18_Witness ==
  /\ ev.op = "read" /\ ev.call.limit = NoLimit /\ ev.call.product_id = "p1"
  /\ pc[Writer] = "record"
  /\ frame[Writer].adj.previous_quantity # frame[Writer].adj.new_quantity
  /\ "on_hand" \in DOMAIN ev.ret.level
  /\ ev.ret.level = levels[<<"p1", WH>>]
  /\ ev.ret.level.on_hand = frame[Writer].adj.new_quantity
  /\ \A n \in 1 .. Len(ev.ret.history) : ev.ret.history[n] # frame[Writer].adj
  /\ ev.ret.history = adjustments

\* The order in which locks may be taken while another is held.
Rank(l) ==
  CASE l = "locations" -> 1 [] l = "levels" -> 2 [] l = "adjustments" -> 3
    [] l = "transfers" -> 4 [] l = "sources" -> 5
Holds(t) == {l \in Locks : sched.owner[l] = t}

\* C19: a thread that takes a lock holds no lock that comes later in the
\* order locations, levels, adjustments, transfers, sources (so it never takes
\* the level-store lock holding the log lock); and a thread outside every
\* critical section, where its next step is to try for a lock, holds none.
C19_LockOrder ==
  [][\A t \in Threads :
       /\ \A l \in Locks :
            (sched'.owner[l] = t /\ sched.owner[l] # t) =>
              \A h \in Holds(t) : Rank(h) < Rank(l)
       /\ sched'.inside[t] = Outside => \A l \in Locks : sched'.owner[l] # t
       /\ sched'.inside[t] # Outside =>
            {l \in Locks : sched'.owner[l] = t} = {sched'.inside[t]}]_vars

\* One thread is in the log's critical section inside complete_transfer while
\* the other, between the two critical sections of a stock operation, waits
\* for the log.
C19_Witness ==
  \E t, u \in Threads :
    /\ sched.owner["adjustments"] = t /\ frame[t].op = "complete_transfer"
    /\ pc[u] = "record" /\ sched.inside[u] = Outside /\ Holds(u) = {}

\* Thread t is in no invocation: its last one has returned or, at an
\* arithmetic overflow under overflow checks, has unwound in a panic and let
\* its guard go.
Ended(t) == pc[t] \in {"idle", "panicked"} /\ sched.inside[t] = Outside

\* C20: under fair scheduling every invocation that has begun comes to its
\* end, whatever the other thread does: no thread waits for a lock forever.
C20_EveryCallEnds ==
  \A t \in Threads : (~Ended(t)) ~> Ended(t)

\* Both threads have used up their calls and returned, after one of them had
\* completed the transfer and the other had synced.
C20_Witness ==
  /\ \A t \in Threads : pc[t] = "idle" /\ Ended(t) /\ sched.calls[t] = MaxCalls
  /\ transfers[Seeded].status = "Completed"
  /\ Cardinality(SyncEntries(adjustments, "erp")) > 0

\* C21: the adjustment log is append-only: across every step the old log is
\* an unchanged prefix of the new one, and a step of a query (get_inventory,
\* get_adjustment_history) leaves the stored log as it is.
C21_AppendOnly ==
  [][/\ Len(adjustments') >= Len(adjustments)
     /\ SubSeq(adjustments', 1, Len(adjustments)) = adjustments
     /\ ev'.op \in {"get_inventory", "read"} => adjustments' = adjustments]_vars

\* The reader got the history most recent first, while the stored log still
\* has its entries in the order they were appended.
C21_Witness ==
  /\ ev.op = "read" /\ Len(ev.ret.history) = 2 /\ Len(adjustments) = 2
  /\ adjustments[1].created_at < adjustments[2].created_at
  /\ ev.ret.history = <<adjustments[2], adjustments[1]>>

\* The call the step just taken belongs to finds no record under its key
\* and can lock the level store.
NoRecord(p, l) == levels[<<p, l>>] = NoLevel /\ ~poisoned

\* C22: reserve_stock, release_stock, commit_stock and get_inventory on a key
\* without a record fail with InventoryNotFound, create no record and append
\* no adjustment; set_inventory, receive_stock and a sync change on such a key
\* do not fail with InventoryNotFound and create the record.  (A level store
\* whose Mutex is poisoned answers every call with LockError.)
C22_InventoryNotFound ==
  [][/\ (ev'.op \in {"reserve_stock", "release_stock", "commit_stock", "get_inventory"}
           /\ NoRecord(ev'.call.product_id, ev'.call.location_id)) =>
          /\ ev'.ret = InventoryNotFound(ev'.call.product_id)
          /\ UNCHANGED <<levels, adjustments>>
          /\ pc'[Caller] \in {"idle", "read"}
     /\ (ev'.op \in {"set_inventory", "receive_stock"}
           /\ NoRecord(ev'.call.product_id, ev'.call.location_id)) =>
          /\ ev'.ret \in {Pending, Panicked}
          /\ levels'[<<ev'.call.product_id, ev'.call.location_id>>] # NoLevel
     /\ (ev'.op = "apply_sync_changes" /\ pc[Caller] = "idle"
           /\ NoRecord(ev'.call.changes[1].product_id, ev'.call.changes[1].location_id)) =>
          /\ ev'.ret \in {Pending, Panicked}
          /\ levels'[<<ev'.call.changes[1].product_id,
                       ev'.call.changes[1].location_id>>] # NoLevel]_vars

\* commit_stock on p2, which has no record, has just failed with
\* InventoryNotFound, after receive_stock had created p1's record.
C22_Witness ==
  /\ ev.op = "commit_stock" /\ ev.ret = InventoryNotFound("p2")
  /\ levels[<<"p2", WH>>] = NoLevel /\ levels[<<"p1", WH>>] # NoLevel
  /\ Len(adjustments) = 1 /\ adjustments[1].adjustment_type = "Received"

\* The log so far is set_inventory(n) on the fresh record of p1 followed by a
\* granted reserve_stock, and the caller has returned.
SetThenReserved ==
  /\ pc[Caller] = "idle" /\ Len(adjustments) >= 2
  /\ adjustments[1].adjustment_type = "Adjustment"
  /\ adjustments[2].adjustment_type = "Reserved"

\* C23: on a fresh record, after set_inventory(n) with n >= 0 and
\* reserve_stock(q), q <= n and the record has on_hand = n, committed = q,
\* available = n - q; after a following commit_stock(q) it has
\* on_hand = n - q, committed = 0, available = n - q.
C23_SetReserveCommit ==
  SetThenReserved =>
    LET n == adjustments[1].new_quantity
        q == adjustments[2].quantity
        level == levels[<<"p1", WH>>]
    IN  /\ n >= 0 /\ q <= n
        /\ Len(adjustments) = 2 =>
             (level.on_hand = n /\ level.committed = q /\ level.available = n - q)
        /\ (Len(adjustments) = 3 /\ adjustments[3].adjustment_type = "Shipped"
              /\ adjustments[3].quantity = -q) =>
             (level.on_hand = n - q /\ level.committed = 0 /\ level.available = n - q)

\* The whole stock of the top of the range was reserved and then committed.
C23_Witness ==
  /\ SetThenReserved /\ Len(adjustments) = 3
  /\ adjustments[1].new_quantity = I64_MAX
  /\ adjustments[2].quantity = MaxQty
  /\ adjustments[3].adjustment_type = "Shipped" /\ adjustments[3].quantity = -MaxQty
  /\ levels[<<"p1", WH>>].on_hand = I64_MAX - MaxQty

\* The step just taken is the level-store critical section of a call of op
\* by the caller, with the level store lockable.
CallerEnters(op) == ev'.op = op /\ pc[Caller] = "idle" /\ ~poisoned
\* ... and the step that appends the call's adjustment.
CallerRecords(op) == ev'.op = op /\ pc[Caller] = "record" /\ pc'[Caller] = "idle"
CallKey == <<ev'.call.product_id, ev'.call.location_id>>

\* What receive_stock does apart from the on_hand and available of an
\* existing record: it does not fail for a missing record; on a key without
\* a record it creates one with on_hand = q and available = q; it leaves
\* committed unchanged; and it appends exactly one adjustment, of type
\* Received.
ReceiveFrame ==
  /\ CallerEnters("receive_stock") =>
       /\ ev'.ret \in {Pending, Panicked}
       /\ levels'[CallKey] # NoLevel
       /\ \A k \in Keys \ {CallKey} : levels'[k] = levels[k]
       /\ adjustments' = adjustments
       /\ levels[CallKey] = NoLevel =>
            /\ levels'[CallKey].on_hand = ev'.call.arg
            /\ levels'[CallKey].available = ev'.call.arg
            /\ levels'[CallKey].committed = 0
            /\ ev'.ret = Pending
       /\ levels[CallKey] # NoLevel =>
            levels'[CallKey].committed = levels[CallKey].committed
  /\ CallerRecords("receive_stock") =>
       /\ Len(adjustments') = Len(adjustments) + 1
       /\ adjustments'[Len(adjustments')].adjustment_type = "Received"
       /\ adjustments'[Len(adjustments')].quantity = ev'.call.arg
       /\ adjustments'[Len(adjustments')].product_id = ev'.call.product_id

\* C24 as stated: on an existing record receive_stock raises on_hand and
\* available by q.
C24_ReceiveRaisesByQuantity ==
  [][/\ ReceiveFrame
     /\ (CallerEnters("receive_stock") /\ levels[CallKey] # NoLevel) =>
          /\ levels'[CallKey].on_hand = levels[CallKey].on_hand + ev'.call.arg
          /\ levels'[CallKey].available = levels[CallKey].available + ev'.call.arg]_vars

\* C24, amended: on an existing record receive_stock raises on_hand by q up
\* to the top of the i64 range, where it saturates, and recomputes available
\* as on_hand - committed - damaged, each subtraction saturating.
C24_ReceiveSaturates ==
  [][/\ ReceiveFrame
     /\ (CallerEnters("receive_stock") /\ levels[CallKey] # NoLevel) =>
          /\ levels'[CallKey].on_hand = Clamp(levels[CallKey].on_hand + ev'.call.arg)
          /\ levels'[CallKey].available =
               Clamp(Clamp(levels'[CallKey].on_hand - levels[CallKey].committed)
                       - levels[CallKey].damaged)]_vars

\* receive_stock has created p2's record, with one Received entry in the
\* log, and has then been applied to p1's record at the top of the range.
C24_Witness ==
  /\ ev.op = "receive_stock" /\ ev.call.product_id = "p1" /\ pc[Caller] = "record"
  /\ levels[<<"p1", WH>>] # NoLevel /\ levels[<<"p2", WH>>] # NoLevel
  /\ levels[<<"p1", WH>>].on_hand = I64_MAX
  /\ frame[Caller].adj.previous_quantity = I64_MAX
  /\ levels[<<"p2", WH>>].on_hand = 1 /\ levels[<<"p2", WH>>].available = 1
  /\ \E n \in 1 .. Len(adjustments) :
       /\ adjustments[n].product_id = "p2" /\ adjustments[n].adjustment_type = "Received"
       /\ adjustments[n].previous_quantity = 0

\* The step just taken is the level-store critical section of a call of
\* set_inventory by thread t, with the level store lockable.
SetInventoryBy(t) ==
  ev'.op = "set_inventory" /\ pc[t] = "idle" /\ pc'[t] # "idle" /\ ~poisoned
OldOnHand == IF levels[CallKey] = NoLevel THEN 0 ELSE levels[CallKey].on_hand
OldLevel ==
  IF levels[CallKey] = NoLevel
  THEN InventoryLevel_new(ev'.call.product_id, ev'.call.location_id) ELSE levels[CallKey]

\* What set_inventory does to the level: on_hand becomes v, the record is
\* created if absent, committed and damaged stay, available is recomputed.
SetInventoryLevel(t) ==
  SetInventoryBy(t) =>
    /\ levels'[CallKey] # NoLevel
    /\ levels'[CallKey].on_hand = ev'.call.arg
    /\ levels'[CallKey].committed = OldLevel.committed
    /\ levels'[CallKey].damaged = OldLevel.damaged
    /\ levels'[CallKey].available =
         Clamp(Clamp(ev'.call.arg - OldLevel.committed) - OldLevel.damaged)
    /\ (levels[CallKey] # NoLevel /\ levels[CallKey].on_hand = ev'.call.arg) =>
         levels'[CallKey] = levels[CallKey]

\* What set_inventory logs: the call goes on to append one adjustment, with
\* quantity = v - old on_hand and previous_quantity = old on_hand.
SetInventoryLogs(t) ==
  /\ SetInventoryBy(t) =>
       /\ pc'[t] = "record"
       /\ frame'[t].adj.adjustment_type = "Adjustment"
       /\ frame'[t].adj.quantity = ev'.call.arg - OldOnHand
       /\ frame'[t].adj.previous_quantity = OldOnHand
  /\ (ev'.op = "set_inventory" /\ pc[t] = "record" /\ pc'[t] = "idle") =>
       adjustments' = Append(adjustments, frame[t].adj)

\* C25: set_inventory(p, l, v) makes on_hand exactly v whatever the previous
\* state (creating the record if absent), leaves committed and damaged
\* unchanged, recomputes available, and appends one adjustment with
\* quantity = v - old on_hand and previous_quantity = old on_hand (0 for a
\* new record); repeating it with the same v leaves the level unchanged and
\* logs a delta of 0.
C25_SetInventoryExact ==
  [][\A t \in Threads : SetInventoryLevel(t) /\ SetInventoryLogs(t)]_vars

\* A registered location is never changed by a later step.
RegisteredStays ==
  \A id \in LocationIds : locations[id] # NoLocation => locations'[id] = locations[id]

\* C26: add_location fails with LocationAlreadyExists when the id is already
\* registered and then leaves the registry unchanged (the location registered
\* first keeps all its attributes); otherwise it inserts the location, after
\* which get_location(id) returns it: at once, and at every later call, for
\* no step changes a registered location.  get_location on an unregistered id
\* fails with LocationNotFound.
C26_AddAndGetLocation ==
  [][/\ RegisteredStays
     /\ ev'.op = "add_location" =>
          IF locations[ev'.call.id] # NoLocation
          THEN /\ ev'.ret = LocationAlreadyExists(ev'.call.id)
               /\ locations' = locations
          ELSE /\ ev'.ret = Ok
               /\ locations' = [locations EXCEPT ![ev'.call.id] = ev'.call.location]
               /\ get_location(locations', ev'.call.id) = ev'.call.location
     /\ ev'.op = "get_location" =>
          ev'.ret = IF locations[ev'.call.id] = NoLocation
                    THEN LocationNotFound(ev'.call.id) ELSE locations[ev'.call.id]]_vars

\* The store id was registered as a warehouse; adding a store under the same
\* id has failed and the registry still holds the warehouse.
C26_Witness ==
  /\ ev.op = "add_location"
  /\ ev.call.location = InventoryLocation_store(Store1, "Shop")
  /\ ev.ret = LocationAlreadyExists(Store1)
  /\ locations[Store1] = InventoryLocation_warehouse(Store1, "Depot")

\* C27: the default warehouse is registered from construction on and no
\* operation removes a location: in every reachable state
\* get_location(default warehouse) succeeds, and the set of registered
\* location ids only grows.
C27_LocationsOnlyGrow ==
  /\ get_location(locations, DefaultWarehouse) # LocationNotFound(DefaultWarehouse)
  /\ [][/\ get_location(locations', DefaultWarehouse) # LocationNotFound(DefaultWarehouse)
        /\ {id \in LocationIds : locations[id] # NoLocation}
             \subseteq {id \in LocationIds : locations'[id] # NoLocation}]_vars

\* A second location has been registered, a transfer stored and stock
\* counted, and get_location of the default warehouse has just returned it.
C27_Witness ==
  /\ ev.op = "get_location" /\ ev.call.id = DefaultWarehouse
  /\ ev.ret = InventoryLocation_warehouse(DefaultWarehouse, "Main Warehouse")
  /\ locations[Store1] # NoLocation
  /\ \E i \in TransferIds : transfers[i] # NoTransfer
  /\ adjustments # <<>>

\* C28: create_transfer(from, to) fails with LocationNotFound when either
\* location is not registered and then stores no transfer; otherwise it
\* stores and returns a transfer with status Pending, no items and no arrival
\* time; either way it changes no inventory level and no adjustment.
C28_CreateTransfer ==
  [][ev'.op = "create_transfer" =>
       /\ levels' = levels /\ adjustments' = adjustments
       /\ IF locations[ev'.call.from] = NoLocation \/ locations[ev'.call.to] = NoLocation
          THEN /\ \E id \in {ev'.call.from, ev'.call.to} :
                    locations[id] = NoLocation /\ ev'.ret = LocationNotFound(id)
               /\ transfers' = transfers
          ELSE /\ ev'.ret \notin {LocationNotFound(ev'.call.from), LocationNotFound(ev'.call.to)}
               /\ ev'.ret.status = "Pending"
               /\ ev'.ret.items = <<>>
               /\ ev'.ret.arrived_at = "none"
               /\ ev'.ret.from_location = ev'.call.from
               /\ ev'.ret.to_location = ev'.call.to
               /\ transfers' = [transfers EXCEPT ![ev'.ret.id] = ev'.ret]]_vars

\* A transfer to the store has been refused while the store was not
\* registered, with a transfer already stored and stock counted and logged.
C28_Witness ==
  /\ ev.op = "create_transfer" /\ ev.call.from = WH /\ ev.call.to = Store1
  /\ ev.ret = LocationNotFound(Store1)
  /\ transfers[TransferId(0)] # NoTransfer
  /\ transfers[TransferId(0)].status = "Pending"
  /\ levels[<<"p1", WH>>] # NoLevel
  /\ adjustments # <<>>

\* The names under which the steps of the query operations are recorded
\* ("read" is the step of get_adjustment_history).
QueryOps ==
  {"get_inventory", "get_total_available", "get_all_inventory_for_product",
   "get_low_stock_products", "get_reorder_needed", "get_out_of_stock", "read",
   "get_location", "get_active_locations", "get_transfer"}

\* C29: the query operations (get_inventory, get_total_available,
\* get_all_inventory_for_product, get_low_stock_products, get_reorder_needed,
\* get_out_of_stock, get_adjustment_history, get_location,
\* get_active_locations, get_transfer) leave all five collections unchanged,
\* whether they succeed or fail.
C29_QueriesChangeNothing ==
  [][ev'.op \in QueryOps =>
       /\ levels' = levels
       /\ locations' = locations
       /\ adjustments' = adjustments
       /\ transfers' = transfers
       /\ sources' = sources]_vars

\* With a record, a second location, a logged adjustment, a stored transfer
\* and a registered source in place, get_transfer has failed on an id that is
\* not stored.
C29_Witness ==
  /\ ev.op = "get_transfer" /\ ev.ret = TransferNotFound(TransferId(1))
  /\ levels[<<"p1", WH>>] # NoLevel
  /\ locations[Store1] # NoLocation
  /\ adjustments # <<>>
  /\ transfers[TransferId(0)] # NoTransfer
  /\ sources # {}

\* The sum of available over the records of store lv under the keys in S.
RECURSIVE AvailableOver(_, _)
AvailableOver(lv, S) ==
  IF S = {} THEN 0
  ELSE LET k == CHOOSE x \in S : TRUE IN lv[k].available + AvailableOver(lv, S \ {k})

\* C30: get_total_available(p) returns the sum of available over every stored
\* record of product p across all locations (0 when p has no record), read
\* from the level store as it is at the one step the call takes, and counts
\* no record of any other product.
C30_TotalAvailable ==
  [][(ev'.op = "get_total_available" /\ ~poisoned) =>
       ev'.ret = Total(AvailableOver(levels,
                                     {k \in Keys : levels[k] # NoLevel
                                                     /\ k[1] = ev'.call.product_id}))]_vars

\* The entries of product p in the log, in the order they were created and
\* appended by the one writer, and the same from the newest to the oldest.
EntriesOf(p) == SelectSeq(adjustments, LAMBDA a : a.product_id = p)
NewestFirst(s) == [n \in 1 .. Len(s) |-> s[Len(s) + 1 - n]]

\* C31: get_adjustment_history(p, limit) returns only adjustments of product
\* p, newest first (an adjustment created later never appears after one
\* created earlier); with limit None it returns all of them, and with Some(n)
\* the n newest of them, or all of them if there are fewer than n.
C31_HistoryNewestFirst ==
  ev.op = "read" =>
    LET history == ev.ret.history
        all == NewestFirst(EntriesOf(ev.call.product_id))
    IN  IF ev.call.limit = NoLimit THEN history = all
        ELSE history = SubSeq(all, 1, Min(ev.call.limit[1], Len(all)))

\* The stored records whose available quantity satisfies Test.
RecordsWith(Test(_)) == {levels[k] : k \in {x \in Stored : Test(levels[x].available)}}
LowRange(a) == 0 < a /\ a <= 10
OutRange(a) == a <= 0
ReorderRange(a) == a <= 20

\* C32: get_low_stock_products, get_out_of_stock and get_reorder_needed return
\* exactly the stored records with 0 < available <= low_stock_threshold (10),
\* with available <= 0, and with available <= reorder_point (20); no record is
\* in both the low-stock and the out-of-stock result, and every out-of-stock
\* record is in the reorder-needed result.
C32_ThresholdQueries ==
  /\ (ev.op = "get_low_stock_products" /\ ~poisoned) => ev.ret = RecordsWith(LowRange)
  /\ (ev.op = "get_out_of_stock" /\ ~poisoned) => ev.ret = RecordsWith(OutRange)
  /\ (ev.op = "get_reorder_needed" /\ ~poisoned) => ev.ret = RecordsWith(ReorderRange)
  /\ get_low_stock_products(levels) \cap get_out_of_stock(levels) = {}
  /\ get_out_of_stock(levels) \subseteq get_reorder_needed(levels)

\* get_low_stock_products has returned p1's record alone: counted just above
\* the low-stock threshold, it is at the threshold after a reservation, while
\* p2 is above the reorder point.
C32_Witness ==
  /\ ev.op = "get_low_stock_products"
  /\ levels[<<"p1", WH>>] # NoLevel /\ levels[<<"p2", WH>>] # NoLevel
  /\ ev.ret = {levels[<<"p1", WH>>]}
  /\ levels[<<"p1", WH>>].on_hand = 11 /\ levels[<<"p1", WH>>].committed = 1
  /\ levels[<<"p1", WH>>].available = 10
  /\ levels[<<"p2", WH>>].available > 20

\* The entries of the log of the given type that carry transfer i's reference.
TransferEntries(i, type) ==
  {n \in 1 .. Len(adjustments) :
     adjustments[n].adjustment_type = type /\ adjustments[n].reference = TransferRef(i)}

\* C33: when several complete_transfer calls for the same Pending transfer
\* run concurrently, its items are moved exactly once: the source is debited
\* and the destination credited by the quantity of its one item at most once,
\* and the log holds at most one Shipped and at most one Received adjustment
\* with the transfer's reference.
C33_MovedOnce ==
  /\ Cardinality(TransferEntries(Seeded, "Shipped")) <= 1
  /\ Cardinality(TransferEntries(Seeded, "Received")) <= 1
  /\ OnHand(levels, "p1", WH) >= MaxQty - 1
  /\ OnHand(levels, "p1", Store1) <= 1

\* C34: for operations on the same record, the adjustment log order equals
\* the order in which the operations updated the level store, under every
\* interleaving.  For set_inventory and receive_stock on one record, whose
\* adjustments hold the on_hand before and after the update, the log then
\* reads as a chain: the first entry starts from 0 and every later entry
\* starts from the quantity the entry before it ended with.
C34_LogInUpdateOrder ==
  \A n \in 1 .. Len(adjustments) :
    adjustments[n].previous_quantity =
      IF n = 1 THEN 0 ELSE adjustments[n - 1].new_quantity

\* The total available quantity of product p in level store lv.
TotalAvailable(lv, p) == AvailableOver(lv, {k \in Keys : lv[k] # NoLevel /\ k[1] = p})

\* C35: completing a transfer of unreserved stock does not change the
\* product's total sellable quantity: when complete_transfer has returned Ok
\* for a transfer between two locations, with nothing of the product reserved
\* at the source and the destination's count below the top of the range by
\* more than the quantity moved, the total available of each of its products
\* is what it was when the call began.
C35_TransferKeepsTotalAvailable ==
  Returned(Ok) =>
    LET T == snap.transfers[ev.call.transfer_id]
    IN  \A p \in Products :
          LET q == QuantityOf(T.items, p)
          IN  (/\ q > 0 /\ T.from_location # T.to_location
               /\ snap.levels[<<p, T.from_location>>] # NoLevel
               /\ snap.levels[<<p, T.from_location>>].committed = 0
               /\ OnHand(snap.levels, p, T.to_location) + q <= I64_MAX) =>
                TotalAvailable(levels, p) = TotalAvailable(snap.levels, p)

\* C36: every stored inventory level belongs to a registered location: no
\* level record has a location id that is absent from the location registry.
C36_LevelsAtRegisteredLocations ==
  \A k \in Keys : levels[k] # NoLevel => locations[k[2]] # NoLocation

\* The keys the step just taken may work on: the key of the call of a stock
\* operation, the keys of the changes of a sync batch.
TouchedKeys ==
  IF ev'.op \in StockOps THEN {CallKey}
  ELSE {<<ev'.call.changes[n].product_id, ev'.call.changes[n].location_id>> :
          n \in 1 .. Len(ev'.call.changes)}

\* C37: a stock operation or sync change on key (product, location) changes
\* only that key's level record and appends to the adjustment log: every level
\* record of another product or another location, absent ones included, and
\* the location, transfer and source tables are the same after each of its
\* steps as before, and the log is the same or longer by one entry.
C37_OnlyItsKey ==
  [][ev'.op \in StockOps \cup {"apply_sync_changes"} =>
       /\ \E key \in TouchedKeys : \A k \in Keys \ {key} : levels'[k] = levels[k]
       /\ locations' = locations /\ transfers' = transfers /\ sources' = sources
       /\ \/ adjustments' = adjustments
          \/ /\ Len(adjustments') = Len(adjustments) + 1
             /\ SubSeq(adjustments', 1, Len(adjustments)) = adjustments]_vars

\* commit_stock has just changed p1's record at the warehouse, beside a
\* record of p2 and two logged adjustments.
C37_Witness ==
  /\ ev.op = "commit_stock" /\ ev.call.product_id = "p1" /\ ev.ret = Pending
  /\ levels[<<"p1", WH>>] # NoLevel /\ levels[<<"p2", WH>>] # NoLevel
  /\ levels[<<"p2", WH>>].on_hand = MaxQty
  /\ Len(adjustments) = 2

\* C38: the arithmetic of the ledger never overflows or wraps: no plain + or
\* - of a stock operation or sync change has left the i64 range (so no call
\* has panicked on one and the build's overflow setting has never mattered),
\* and every logged adjustment has new_quantity = previous_quantity +
\* quantity as integers.
C38_NoOverflow ==
  /\ overflow_checks = "unset"
  /\ ~poisoned
  /\ \A n \in 1 .. Len(adjustments) :
       adjustments[n].new_quantity
         = adjustments[n].previous_quantity + adjustments[n].quantity
====
